---- MODULE Spec2Model ----
(***************************************************************************)
(* MCP-Gateway: the capability registry (capability_registry.py), the      *)
(* client manager (client_manager.py) and the forwarding handlers and      *)
(* lifespan (bridge_app.py), as state machines.                            *)
(***************************************************************************)
EXTENDS Integers, Sequences, FiniteSets, TLC

(* ------------------------------------------------------------------ *)
(* Bounds of the model                                                 *)
(* ------------------------------------------------------------------ *)

\* list calls of one discovery pass that answer a non-empty list
MaxListing == 2
\* list calls of one discovery pass that raise or answer no list at all
MaxFaulty == 1
\* discovery passes run on one registry
MaxPasses == 2
\* calls of stop_all on one manager
MaxStops == 2
\* server entries of one configuration file
MaxServers == 2
\* runs of app_lifespan in one process
MaxRuns == 2

(* ------------------------------------------------------------------ *)
(* Names                                                               *)
(* ------------------------------------------------------------------ *)

\* backend names (keys of the configuration file)
Backends == {"a", "a_b"}

\* capability_type_name of the three discovery tasks of one backend
CapabilityTypes == {"tools", "resources", "prompts"}

\* the (server_name, capability_type_name) pairs a pass can create a task for
TaskIds == Backends \X CapabilityTypes

\* capability names a backend may use (the empty name is skipped by the registry)
OriginalNames == {"x", "b_x"}

\* absent value (Python None)
None == "None"

(* ------------------------------------------------------------------ *)
(* What a backend answers to list_tools / list_resources / list_prompts *)
(* ------------------------------------------------------------------ *)

\* an item of the expected mcp_type_class
It(n) == [name |-> n, is_type |-> TRUE]
\* an item that is not an instance of the expected mcp_type_class
Wr(n) == [name |-> n, is_type |-> FALSE]

\* items of a raising answer: what the backend would have sent had the call
\* not been abandoned
\* kind: "object"  a result object with the attribute named after the type,
\*       "list"    a bare list, "none" None, "unknown" any other value,
\*       "timeout" | "mcp_error" | "exception"  the awaited call raised
Answer(k, s) == [kind |-> k, items |-> s]

EmptyAnswer == Answer("object", <<>>)

ListAnswers ==
    { Answer("object", <<It(""), Wr("b_x"), It("x"), It("x")>>),
      Answer("list", <<It("b_x"), It("x")>>),
      Answer("none", <<>>),
      Answer("unknown", <<It("x")>>),
      Answer("timeout", <<It("x")>>),
      Answer("mcp_error", <<>>),
      Answer("exception", <<>>) }

RaisingKinds == {"timeout", "mcp_error", "exception"}

(* ------------------------------------------------------------------ *)
(* State                                                               *)
(* ------------------------------------------------------------------ *)

VARIABLES
    aggregated,          \* CapabilityRegistry._aggregated_tools/_resources/_prompts
    routing_map,         \* CapabilityRegistry._routing_map
    original_name_map,   \* CapabilityRegistry._original_name_map
    disc_pc,             \* discover_and_register: "idle" | "gathering" | "returned" | "raised"
    disc_sessions,       \* its sessions argument: server names in dict order
    tasks,               \* the discovery tasks of the running pass
    passes,              \* discovery passes started on this registry
    backend_lists,       \* what each backend may answer to each list call
    config_data,         \* start_all's argument: server name -> kind of its entry
    backend_env,         \* how each backend behaves when connected to and released
    conn,                \* the _start_backend_svr task of each backend
    pending_tasks,       \* ClientManager._pending_tasks (its keys)
    sessions,            \* ClientManager._sessions (its keys, in insertion order)
    exit_stack,          \* ClientManager._exit_stack (bottom first)
    resources,           \* state of each backend's subprocess, transport, session
    release_log,         \* the release actions run so far, in order
    signals,             \* the signals sent to each supervised subprocess
    mgr_pc,              \* position of start_all / stop_all
    stops,               \* completed calls of stop_all
    life_pc,             \* position of app_lifespan
    life_err,            \* the exception app_lifespan re-raises ("none" if none)
    startup_ok,          \* app_lifespan's startup_ok
    server_manager,      \* mcp_server.manager
    server_registry,     \* mcp_server.registry
    transport_up,        \* whether each backend's transport is still connected
    request,             \* the front-facing request handled last and its outcome
    cfg_file,            \* what load_and_validate_config finds at config_path
    data,                \* the items of the file's top-level object read so far
    validated_config,    \* load_and_validate_config's validated_config
    loader_pc,           \* position of load_and_validate_config
    run                  \* the number of the current run of app_lifespan

loader_vars == <<cfg_file, data, validated_config, loader_pc>>
\* what no step of the manager, the registry, the lifespan or a handler writes
env_vars == <<backend_lists, backend_env, loader_vars, run>>
reg_vars == <<aggregated, routing_map, original_name_map>>
disc_vars == <<disc_pc, disc_sessions, tasks, passes>>
mgr_vars == <<config_data, conn, pending_tasks, sessions, exit_stack, resources,
              release_log, signals, mgr_pc, stops>>
mgr_frame == <<config_data, conn, pending_tasks, exit_stack, resources,
               release_log, signals, mgr_pc, stops>>
life_vars == <<life_pc, life_err, startup_ok, server_manager, server_registry>>
fwd_vars == <<transport_up, request>>
vars == <<aggregated, routing_map, original_name_map, disc_pc, disc_sessions,
          tasks, passes, backend_lists, config_data, backend_env, conn,
          pending_tasks, sessions, exit_stack, resources, release_log, signals,
          mgr_pc, stops, life_pc, life_err, startup_ok, server_manager,
          server_registry, transport_up, request, cfg_file, data,
          validated_config, loader_pc, run>>

(* ------------------------------------------------------------------ *)
(* CapabilityRegistry                                                  *)
(* ------------------------------------------------------------------ *)

EmptyMap == [n \in {} |-> None]

NoLists == [t \in CapabilityTypes |-> <<>>]

\* a task that was not created / awaits its list call / has finished
\* error: the except clause that logged; exc: the exception that left the coroutine
IdleTask == [pc |-> "none", answer |-> EmptyAnswer, error |-> "none",
             exc |-> "none", registered_count |-> 0, log |-> <<>>]

Range(s) == {s[i] : i \in 1..Len(s)}

\* capability_prefix = f"{server_name}_"
CapabilityPrefix(server_name) == server_name \o "_"

\* variant: the capability keeps its original name
PrefixedItemName_Unprefixed(capability_prefix, original_item_name) ==
    original_item_name

\* prefixed_item_name = f"{capability_prefix}{original_item_name}"
PrefixedItemName(capability_prefix, original_item_name) ==
    capability_prefix \o original_item_name

\* original_capabilities extracted from list_result
OriginalCapabilities(list_result) ==
    IF list_result.kind \in {"object", "list"} THEN list_result.items ELSE <<>>

\* the except clause that ends the task when the awaited list call raises
CaughtBy(kind) ==
    CASE kind = "timeout" -> "TimeoutError"
      [] kind = "mcp_error" -> "mcp_types.Error"
      [] kind = "exception" -> "Exception"
      [] OTHER -> "none"

\* the exception that leaves _discover_and_register_capability_type
EscapingException(kind) ==
    IF kind \in RaisingKinds /\ CaughtBy(kind) = "none" THEN kind ELSE "none"

\* asyncio.gather(*tasks, return_exceptions=...): "raised" when it re-raises a
\* task's exception, "returned" when it returns the list of results
GatherOutcome(excs, return_exceptions) ==
    IF ~return_exceptions /\ excs # {} THEN "raised" ELSE "returned"

\* variant: the loop without the check against the routing map
RegisterItem_NoConflictCheck(r, server_name, ctype, item) ==
    IF ~item.is_type THEN [r EXCEPT !.log = Append(@, "skipped_type")]
    ELSE IF item.name = "" THEN [r EXCEPT !.log = Append(@, "skipped_name")]
    ELSE
      LET original_item_name == item.name
          prefixed_item_name == (server_name \o "_") \o original_item_name
          onm == IF original_item_name \in DOMAIN r.original_name_map
                 THEN r.original_name_map
                 ELSE (original_item_name :> server_name) @@ r.original_name_map
      IN [r EXCEPT !.original_name_map = onm,
                   !.aggregated[ctype] = Append(@, prefixed_item_name),
                   !.routing_map =
                       (prefixed_item_name :> <<server_name, original_item_name>>) @@ @,
                   !.registered_count = @ + 1,
                   !.log = Append(@, "registered")]

\* one iteration of the registration loop; r is the registry together with the
\* task's registered_count and the outcome logged for each item
RegisterItem(r, server_name, ctype, item) ==
    IF ~item.is_type THEN [r EXCEPT !.log = Append(@, "skipped_type")]
    ELSE IF item.name = "" THEN [r EXCEPT !.log = Append(@, "skipped_name")]
    ELSE
      LET original_item_name == item.name
          prefixed_item_name ==
              PrefixedItemName(CapabilityPrefix(server_name), original_item_name)
          onm == IF original_item_name \in DOMAIN r.original_name_map
                 THEN r.original_name_map
                 ELSE (original_item_name :> server_name) @@ r.original_name_map
      IN IF prefixed_item_name \in DOMAIN r.routing_map
         THEN [r EXCEPT !.original_name_map = onm,
                        !.log = Append(@, "conflict")]
         ELSE [r EXCEPT !.original_name_map = onm,
                        !.aggregated[ctype] = Append(@, prefixed_item_name),
                        !.routing_map =
                            (prefixed_item_name :> <<server_name, original_item_name>>) @@ @,
                        !.registered_count = @ + 1,
                        !.log = Append(@, "registered")]

RECURSIVE RegisterLoop(_, _, _, _, _)
\* variant: an item that is skipped ends the loop
RegisterLoop_StopsAtBadItem(r, server_name, ctype, items, i) ==
    IF i > Len(items) THEN r
    ELSE IF ~items[i].is_type \/ items[i].name = "" THEN r
    ELSE RegisterLoop(RegisterItem(r, server_name, ctype, items[i]),
                      server_name, ctype, items, i + 1)

\* for cap_item_any in original_capabilities
RegisterLoop(r, server_name, ctype, items, i) ==
    IF i > Len(items) THEN r
    ELSE RegisterLoop(RegisterItem(r, server_name, ctype, items[i]),
                      server_name, ctype, items, i + 1)

\* variant: the list call is awaited without a timeout, so the late answer is used
RegisterCapabilityType_NoTimeout(r, server_name, ctype, list_result) ==
    IF list_result.kind \in RaisingKinds \ {"timeout"} THEN r
    ELSE RegisterLoop(r, server_name, ctype, list_result.items, 1)

\* the body of _discover_and_register_capability_type after its list call
\* has produced list_result (a value or a raised exception)
RegisterCapabilityType(r, server_name, ctype, list_result) ==
    IF list_result.kind \in RaisingKinds THEN r
    ELSE RegisterLoop(r, server_name, ctype, OriginalCapabilities(list_result), 1)

\* resolve_capability
resolve_capability(name) ==
    IF name \in DOMAIN routing_map THEN routing_map[name] ELSE None

(* ------------------------------------------------------------------ *)
(* discover_and_register                                               *)
(* ------------------------------------------------------------------ *)

IsFaulty(ans) == ans.kind \notin {"object", "list"}
IsListing(ans) == ans.kind \in {"object", "list"} /\ ans.items # <<>>

\* list calls of the running pass that answered a non-empty list / no list
ListingCount ==
    Cardinality({k \in TaskIds : tasks[k].pc = "done" /\ IsListing(tasks[k].answer)})
FaultyCount ==
    Cardinality({k \in TaskIds : tasks[k].pc = "done" /\ IsFaulty(tasks[k].answer)})

\* variant: the aggregated lists are not cleared
DiscoverBegin_KeepsLists(sess) ==
    /\ aggregated' = aggregated
    /\ routing_map' = EmptyMap
    /\ original_name_map' = EmptyMap
    /\ disc_sessions' = sess
    /\ tasks' = [k \in TaskIds |->
                    IF k[1] \in Range(sess)
                    THEN [IdleTask EXCEPT !.pc = "awaiting"] ELSE IdleTask]
    /\ disc_pc' = "gathering"
    /\ passes' = IF passes < MaxPasses THEN passes + 1 ELSE passes

\* variant: the routing map is not cleared
DiscoverBegin_KeepsRouting(sess) ==
    /\ aggregated' = NoLists
    /\ routing_map' = routing_map
    /\ original_name_map' = EmptyMap
    /\ disc_sessions' = sess
    /\ tasks' = [k \in TaskIds |->
                    IF k[1] \in Range(sess)
                    THEN [IdleTask EXCEPT !.pc = "awaiting"] ELSE IdleTask]
    /\ disc_pc' = "gathering"
    /\ passes' = IF passes < MaxPasses THEN passes + 1 ELSE passes

\* variant: a task is created for every configured backend, with or without
\* a session
DiscoverBegin_EveryBackend(sess) ==
    /\ aggregated' = NoLists
    /\ routing_map' = EmptyMap
    /\ original_name_map' = EmptyMap
    /\ disc_sessions' = sess
    /\ tasks' = [k \in TaskIds |-> [IdleTask EXCEPT !.pc = "awaiting"]]
    /\ disc_pc' = "gathering"
    /\ passes' = IF passes < MaxPasses THEN passes + 1 ELSE passes

\* discover_and_register up to its gather: the five clear() calls and one task
\* per (session, capability type)
DiscoverBegin(sess) ==
    /\ aggregated' = NoLists
    /\ routing_map' = EmptyMap
    /\ original_name_map' = EmptyMap
    /\ disc_sessions' = sess
    /\ tasks' = [k \in TaskIds |->
                    IF k[1] \in Range(sess)
                    THEN [IdleTask EXCEPT !.pc = "awaiting"] ELSE IdleTask]
    /\ disc_pc' = "gathering"
    /\ passes' = IF passes < MaxPasses THEN passes + 1 ELSE passes

\* variant: the loop yields to the other tasks after every item
ListReturn_ItemByItem(k) ==
    /\ disc_pc = "gathering"
    /\ tasks[k].pc = "awaiting"
    /\ \E ans \in (IF tasks[k].log = <<>> THEN backend_lists[k] ELSE {tasks[k].answer}) :
         /\ (tasks[k].log = <<>> /\ IsListing(ans)) => ListingCount < MaxListing
         /\ (tasks[k].log = <<>> /\ IsFaulty(ans)) => FaultyCount < MaxFaulty
         /\ LET items == IF ans.kind \in RaisingKinds THEN <<>>
                         ELSE OriginalCapabilities(ans)
                i == Len(tasks[k].log) + 1
                r0 == [aggregated |-> aggregated, routing_map |-> routing_map,
                       original_name_map |-> original_name_map,
                       registered_count |-> tasks[k].registered_count,
                       log |-> tasks[k].log]
                r1 == IF i <= Len(items)
                      THEN RegisterItem(r0, k[1], k[2], items[i]) ELSE r0
            IN /\ aggregated' = r1.aggregated
               /\ routing_map' = r1.routing_map
               /\ original_name_map' = r1.original_name_map
               /\ tasks' = [tasks EXCEPT ![k] =
                               [pc |-> IF i >= Len(items) THEN "done" ELSE "awaiting",
                                answer |-> ans,
                                error |-> CaughtBy(ans.kind),
                                exc |-> EscapingException(ans.kind),
                                registered_count |-> r1.registered_count,
                                log |-> r1.log]]
    /\ UNCHANGED <<disc_pc, disc_sessions, passes>>

\* the list call of one task completes and the task runs to its end
ListReturn(k) ==
    /\ disc_pc = "gathering"
    /\ tasks[k].pc = "awaiting"
    /\ \E ans \in backend_lists[k] :
         /\ IsListing(ans) => ListingCount < MaxListing
         /\ IsFaulty(ans) => FaultyCount < MaxFaulty
         /\ LET r0 == [aggregated |-> aggregated, routing_map |-> routing_map,
                       original_name_map |-> original_name_map,
                       registered_count |-> 0, log |-> <<>>]
                r1 == RegisterCapabilityType(r0, k[1], k[2], ans)
            IN /\ aggregated' = r1.aggregated
               /\ routing_map' = r1.routing_map
               /\ original_name_map' = r1.original_name_map
               /\ tasks' = [tasks EXCEPT ![k] =
                               [pc |-> "done", answer |-> ans,
                                error |-> CaughtBy(ans.kind),
                                exc |-> EscapingException(ans.kind),
                                registered_count |-> r1.registered_count,
                                log |-> r1.log]]
    /\ UNCHANGED <<disc_pc, disc_sessions, passes>>

\* asyncio.gather(*discovery_tasks, return_exceptions=True) returns
GatherReturn ==
    /\ disc_pc = "gathering"
    /\ \A k \in TaskIds : tasks[k].pc # "awaiting"
    /\ disc_pc' = GatherOutcome({tasks[k].exc : k \in TaskIds} \ {"none"}, TRUE)
    /\ UNCHANGED <<reg_vars, disc_sessions, tasks, passes>>

(* ------------------------------------------------------------------ *)
(* ClientManager: the connectors                                       *)
(* ------------------------------------------------------------------ *)

\* kinds of a config_data entry: "stdio", "sse" (url only), "sse_local" (url and
\* command), "other" (a type _start_backend_svr does not support)
ConfigKinds == {"stdio", "sse", "sse_local", "other"}

\* connect: what happens when the gateway connects to the backend
\*   "ok" | "spawn_fails" | "open_fails" | "session_fails" | "init_timeout" |
\*   "init_error" | "open_hangs" | "session_hangs"
\* release: "clean" | "transport_raises" | "session_raises" (the context
\*   manager's exit raises)
\* term: "exits" | "ignores" (the child's reaction to terminate()) | "reaped"
\*   (the child is gone and terminate() raises ProcessLookupError)
Env(c, r, t) == [connect |-> c, release |-> r, term |-> t]

IdleConn == [pc |-> "none", result |-> "none", cancel |-> FALSE]

NoResources == [subproc |-> "none", transport |-> "none", session |-> "none"]

Res(kind, svr_name) == [res |-> kind, svr |-> svr_name]

\* variant: the exit is not registered on the shared stack
EnterAsyncContext_NotPushed(stack, kind, svr_name) == stack

\* AsyncExitStack.enter_async_context: the context is entered, then its exit is
\* pushed on the stack
EnterAsyncContext(stack, kind, svr_name) == Append(stack, Res(kind, svr_name))

\* variant: a connector that fails cancels the other connectors
ConnDone_CancelsSiblings(svr_name, result) ==
    conn' = [b \in Backends |->
               IF b = svr_name THEN [conn[b] EXCEPT !.pc = "done", !.result = result]
               ELSE IF result # "True" /\ conn[b].pc \notin {"none", "done"}
               THEN [conn[b] EXCEPT !.cancel = TRUE]
               ELSE conn[b]]

\* a connector task ends; True only after initialize succeeded
ConnDone(svr_name, result) ==
    conn' = [conn EXCEPT ![svr_name] = [@ EXCEPT !.pc = "done", !.result = result]]

\* variant: the connector does not sleep after it spawned the local server
ConnGoto_NoGraceDelay(svr_name, pc) ==
    conn' = [conn EXCEPT ![svr_name].pc =
                IF pc = "sleeping" THEN "opening_transport" ELSE pc]

\* the connector goes on to its next await
ConnGoto(svr_name, pc) ==
    conn' = [conn EXCEPT ![svr_name].pc = pc]

\* variant: initialize is awaited without a timeout
WaitForInitialize_NoTimeout(env) ==
    IF env.connect = "init_timeout" THEN "pending"
    ELSE IF env.connect = "init_error" THEN "Exception"
    ELSE "True"

\* asyncio.wait_for(session.initialize(), timeout=MCP_INIT_TIMEOUT): an
\* initialize that never answers ends in TimeoutError
WaitForInitialize(env) ==
    IF env.connect = "init_timeout" THEN "TimeoutError"
    ELSE IF env.connect = "init_error" THEN "Exception"
    ELSE "True"

\* one step of _start_backend_svr(svr_name): from one suspension point to the next
ConnectorStep(svr_name) ==
    LET c == conn[svr_name]
        kind == config_data[svr_name]
        env == backend_env[svr_name]
    IN
    /\ svr_name \in DOMAIN config_data
    /\ c.pc \notin {"none", "done"}
    /\ UNCHANGED <<config_data, pending_tasks, release_log, signals, mgr_pc, stops>>
    /\ IF c.cancel
       THEN \* CancelledError is thrown at the suspension point
            /\ ConnDone(svr_name, "cancelled")
            /\ UNCHANGED <<sessions, exit_stack, resources>>
       ELSE CASE c.pc = "created" ->
                 /\ UNCHANGED <<sessions, exit_stack, resources>>
                 /\ IF kind = "sse_local" THEN ConnGoto(svr_name, "spawning")
                    ELSE IF kind \in {"stdio", "sse"}
                         THEN ConnGoto(svr_name, "opening_transport")
                         ELSE ConnDone(svr_name, "ConfigurationError")
              [] c.pc = "spawning" ->
                 IF env.connect = "spawn_fails"
                 THEN /\ ConnDone(svr_name, "FileNotFoundError")
                      /\ UNCHANGED <<sessions, exit_stack, resources>>
                 ELSE /\ exit_stack' = EnterAsyncContext(exit_stack, "subproc", svr_name)
                      /\ resources' = [resources EXCEPT ![svr_name].subproc = "running"]
                      /\ ConnGoto(svr_name, "sleeping")
                      /\ UNCHANGED sessions
              [] c.pc = "sleeping" ->
                 /\ ConnGoto(svr_name, "opening_transport")
                 /\ UNCHANGED <<sessions, exit_stack, resources>>
              [] c.pc = "opening_transport" ->
                 /\ env.connect # "open_hangs"
                 /\ IF env.connect = "open_fails"
                    THEN /\ ConnDone(svr_name, "ConnectionError")
                         /\ UNCHANGED <<sessions, exit_stack, resources>>
                    ELSE /\ exit_stack' = EnterAsyncContext(exit_stack, "transport", svr_name)
                         /\ resources' = [resources EXCEPT ![svr_name].transport = "open"]
                         /\ ConnGoto(svr_name, "opening_session")
                         /\ UNCHANGED sessions
              [] c.pc = "opening_session" ->
                 /\ env.connect # "session_hangs"
                 /\ IF env.connect = "session_fails"
                    THEN /\ ConnDone(svr_name, "Exception")
                         /\ UNCHANGED <<sessions, exit_stack, resources>>
                    ELSE /\ exit_stack' = EnterAsyncContext(exit_stack, "session", svr_name)
                         /\ resources' = [resources EXCEPT ![svr_name].session = "open"]
                         /\ ConnGoto(svr_name, "initializing")
                         /\ UNCHANGED sessions
              [] c.pc = "initializing" ->
                 /\ UNCHANGED <<exit_stack, resources>>
                 /\ WaitForInitialize(env) # "pending"
                 /\ IF WaitForInitialize(env) # "True"
                    THEN ConnDone(svr_name, WaitForInitialize(env)) /\ UNCHANGED sessions
                    ELSE /\ sessions' = IF svr_name \in Range(sessions) THEN sessions
                                        ELSE Append(sessions, svr_name)
                         /\ ConnDone(svr_name, "True")

\* the supervised child exits on its own
ProcExit(svr_name) ==
    /\ resources[svr_name].subproc = "running"
    /\ resources' = [resources EXCEPT ![svr_name].subproc = "exited"]
    /\ UNCHANGED <<config_data, conn, pending_tasks, sessions, exit_stack,
                   release_log, signals, mgr_pc, stops>>

(* ------------------------------------------------------------------ *)
(* ClientManager.start_all                                             *)
(* ------------------------------------------------------------------ *)

\* start_all up to its gather: one task per configured backend; with no
\* backend it returns at once
StartAllBegin(cfg) ==
    /\ config_data' = cfg
    /\ conn' = [b \in Backends |->
                  IF b \in DOMAIN cfg THEN [IdleConn EXCEPT !.pc = "created"]
                  ELSE conn[b]]
    /\ pending_tasks' = IF DOMAIN cfg = {} THEN {} ELSE pending_tasks \cup DOMAIN cfg
    /\ mgr_pc' = IF DOMAIN cfg = {} THEN "started" ELSE "starting"
    /\ UNCHANGED <<sessions, exit_stack, resources, release_log, signals, stops>>

\* the gather of start_all returns; _pending_tasks is cleared
StartAllReturn ==
    /\ mgr_pc = "starting"
    /\ \A b \in pending_tasks : conn[b].pc = "done"
    /\ pending_tasks' = {}
    /\ mgr_pc' = "started"
    /\ UNCHANGED <<config_data, conn, sessions, exit_stack, resources,
                   release_log, signals, stops>>

\* the task awaiting start_all is cancelled: gather cancels its children and
\* start_all raises CancelledError before it clears _pending_tasks
StartAllCancelled ==
    /\ mgr_pc = "starting"
    /\ conn' = [b \in Backends |->
                  IF b \in pending_tasks /\ conn[b].pc # "done"
                  THEN [conn[b] EXCEPT !.cancel = TRUE] ELSE conn[b]]
    /\ mgr_pc' = "start_cancelled"
    /\ UNCHANGED <<config_data, pending_tasks, sessions, exit_stack, resources,
                   release_log, signals, stops>>

(* ------------------------------------------------------------------ *)
(* ClientManager.stop_all                                              *)
(* ------------------------------------------------------------------ *)

\* variant: stop_all closes the exit stack without cancelling or awaiting the
\* pending tasks
StopAllBegin_DrainsAtOnce ==
    /\ mgr_pc' = "draining"
    /\ UNCHANGED <<config_data, conn, pending_tasks, sessions, exit_stack, resources,
                   release_log, signals, stops>>

\* stop_all up to its first await: with pending tasks, cancel the unfinished
\* ones and gather them; otherwise go on to close the exit stack
StopAllBegin ==
    /\ IF pending_tasks # {}
       THEN /\ conn' = [b \in Backends |->
                          IF b \in pending_tasks /\ conn[b].pc # "done"
                          THEN [conn[b] EXCEPT !.cancel = TRUE] ELSE conn[b]]
            /\ mgr_pc' = "cancelling"
       ELSE /\ conn' = conn
            /\ mgr_pc' = "draining"
    /\ UNCHANGED <<config_data, pending_tasks, sessions, exit_stack, resources,
                   release_log, signals, stops>>

\* variant: _pending_tasks is not cleared
StopAllGathered_KeepsPending ==
    /\ mgr_pc = "cancelling"
    /\ \A b \in pending_tasks : conn[b].pc = "done"
    /\ mgr_pc' = "draining"
    /\ UNCHANGED <<config_data, conn, pending_tasks, sessions, exit_stack,
                   resources, release_log, signals, stops>>

\* the gather of stop_all returns; _pending_tasks is cleared
StopAllGathered ==
    /\ mgr_pc = "cancelling"
    /\ \A b \in pending_tasks : conn[b].pc = "done"
    /\ pending_tasks' = {}
    /\ mgr_pc' = "draining"
    /\ UNCHANGED <<config_data, conn, sessions, exit_stack, resources,
                   release_log, signals, stops>>

\* variant: a child that has not exited is killed without the polite signal
ReleaseSubproc_KillsAtOnce(state, term) ==
    IF state # "running" THEN [state |-> state, sent |-> <<>>]
    ELSE [state |-> "killed", sent |-> <<"kill">>]

\* the finally block of _manage_subproc: [state of the child, calls of
\* terminate() and kill()]; ProcessLookupError from terminate() is caught
ReleaseSubproc(state, term) ==
    IF state # "running" THEN [state |-> state, sent |-> <<>>]
    ELSE IF term = "exits" THEN [state |-> "terminated", sent |-> <<"terminate">>]
    ELSE IF term = "reaped" THEN [state |-> "exited", sent |-> <<"terminate">>]
    ELSE [state |-> "killed", sent |-> <<"terminate", "kill">>]

\* whether the exit of this context manager raises
ReleaseRaises(kind, env) ==
    \/ kind = "transport" /\ env.release = "transport_raises"
    \/ kind = "session" /\ env.release = "session_raises"

\* variant: the exits are run as soon as start_all has returned
DrainStep_BeforeStopAll ==
    /\ mgr_pc \in {"draining", "started"}
    /\ exit_stack # <<>>
    /\ LET top == exit_stack[Len(exit_stack)]
           env == backend_env[top.svr]
           sub == ReleaseSubproc(resources[top.svr].subproc, env.term)
           outcome == IF ReleaseRaises(top.res, env) THEN "raised" ELSE "ok"
       IN /\ exit_stack' = SubSeq(exit_stack, 1, Len(exit_stack) - 1)
          /\ release_log' = Append(release_log,
                                   [res |-> top.res, svr |-> top.svr, outcome |-> outcome])
          /\ IF top.res = "subproc"
             THEN /\ resources' = [resources EXCEPT ![top.svr].subproc = sub.state]
                  /\ signals' = [signals EXCEPT ![top.svr] = @ \o sub.sent]
             ELSE /\ resources' = [resources EXCEPT ![top.svr][top.res] = "closed"]
                  /\ signals' = signals
    /\ UNCHANGED <<config_data, conn, pending_tasks, sessions, mgr_pc, stops>>

\* variant: an exit that raises ends the drain, the exits below it are skipped
DrainStep_StopsAtFailure ==
    /\ mgr_pc = "draining"
    /\ exit_stack # <<>>
    /\ LET top == exit_stack[Len(exit_stack)]
           env == backend_env[top.svr]
           sub == ReleaseSubproc(resources[top.svr].subproc, env.term)
           outcome == IF ReleaseRaises(top.res, env) THEN "raised" ELSE "ok"
       IN /\ exit_stack' = IF outcome = "raised" THEN <<>>
                          ELSE SubSeq(exit_stack, 1, Len(exit_stack) - 1)
          /\ release_log' = Append(release_log,
                                   [res |-> top.res, svr |-> top.svr, outcome |-> outcome])
          /\ IF top.res = "subproc"
             THEN /\ resources' = [resources EXCEPT ![top.svr].subproc = sub.state]
                  /\ signals' = [signals EXCEPT ![top.svr] = @ \o sub.sent]
             ELSE /\ resources' = [resources EXCEPT ![top.svr][top.res] = "closed"]
                  /\ signals' = signals
    /\ UNCHANGED <<config_data, conn, pending_tasks, sessions, mgr_pc, stops>>

\* variant: the exits registered first are run first
DrainStep_OldestFirst ==
    /\ mgr_pc = "draining"
    /\ exit_stack # <<>>
    /\ LET top == exit_stack[1]
           env == backend_env[top.svr]
           sub == ReleaseSubproc(resources[top.svr].subproc, env.term)
           outcome == IF ReleaseRaises(top.res, env) THEN "raised" ELSE "ok"
       IN /\ exit_stack' = Tail(exit_stack)
          /\ release_log' = Append(release_log,
                                   [res |-> top.res, svr |-> top.svr, outcome |-> outcome])
          /\ IF top.res = "subproc"
             THEN /\ resources' = [resources EXCEPT ![top.svr].subproc = sub.state]
                  /\ signals' = [signals EXCEPT ![top.svr] = @ \o sub.sent]
             ELSE /\ resources' = [resources EXCEPT ![top.svr][top.res] = "closed"]
                  /\ signals' = signals
    /\ UNCHANGED <<config_data, conn, pending_tasks, sessions, mgr_pc, stops>>

\* AsyncExitStack.aclose runs the exit on top of the stack
DrainStep ==
    /\ mgr_pc = "draining"
    /\ exit_stack # <<>>
    /\ LET top == exit_stack[Len(exit_stack)]
           env == backend_env[top.svr]
           sub == ReleaseSubproc(resources[top.svr].subproc, env.term)
           outcome == IF ReleaseRaises(top.res, env) THEN "raised" ELSE "ok"
       IN /\ exit_stack' = SubSeq(exit_stack, 1, Len(exit_stack) - 1)
          /\ release_log' = Append(release_log,
                                   [res |-> top.res, svr |-> top.svr, outcome |-> outcome])
          /\ IF top.res = "subproc"
             THEN /\ resources' = [resources EXCEPT ![top.svr].subproc = sub.state]
                  /\ signals' = [signals EXCEPT ![top.svr] = @ \o sub.sent]
             ELSE /\ resources' = [resources EXCEPT ![top.svr][top.res] = "closed"]
                  /\ signals' = signals
    /\ UNCHANGED <<config_data, conn, pending_tasks, sessions, mgr_pc, stops>>

\* variant: the session map is left as it is
StopAllReturn_KeepsSessions ==
    /\ mgr_pc = "draining"
    /\ exit_stack = <<>>
    /\ mgr_pc' = "stopped"
    /\ stops' = stops + 1
    /\ UNCHANGED <<config_data, conn, pending_tasks, sessions, exit_stack,
                   resources, release_log, signals>>

\* aclose has run every exit (its exception, if any, is caught and logged);
\* the session map is cleared and stop_all returns
StopAllReturn ==
    /\ mgr_pc = "draining"
    /\ exit_stack = <<>>
    /\ sessions' = <<>>
    /\ mgr_pc' = "stopped"
    /\ stops' = stops + 1
    /\ UNCHANGED <<config_data, conn, pending_tasks, exit_stack, resources,
                   release_log, signals>>

(* ------------------------------------------------------------------ *)
(* bridge_app: the forwarding helper and the front-facing handlers     *)
(* ------------------------------------------------------------------ *)

\* arguments of a front-facing request: absent, {}, {"m": "x"}, {"m": 1}
RequestArgs == {"None", "{}", "{m:'x'}", "{m:1}"}

\* names a client may ask for
RequestNames == {"a_x", "a_b_x", "x"}

ForwardMethods == {"call_tool", "read_resource", "get_prompt"}

\* the result type each handler expects
ExpectedType(mcp_method) ==
    CASE mcp_method = "call_tool" -> "CallToolResult"
      [] mcp_method = "read_resource" -> "ReadResourceResult"
      [] mcp_method = "get_prompt" -> "GetPromptResult"

\* what the awaited session method does: it returns a value, raises,
\* or never completes
Returns(type) == [kind |-> "return", type |-> type]
Raises(type) == [kind |-> "raise", type |-> type]
Hangs == [kind |-> "hang", type |-> "none"]

\* read_resource's value is unpacked as (content, mime_type): "pair" can be
\* unpacked, "not_pair" cannot
Replies(mcp_method, up) ==
    IF ~up
    THEN {Raises("TimeoutError"), Raises("ConnectionResetError"),
          Raises("BrokenPipeError"), Raises("ClosedResourceError"), Hangs}
    ELSE (IF mcp_method = "read_resource"
          THEN {Returns("pair"), Returns("not_pair")}
          ELSE {Returns(ExpectedType(mcp_method)), Returns("dict")})
         \cup {Raises("TimeoutError"), Raises("ConnectionResetError"),
               Raises("BrokenPipeError"), Raises("BackendServerError"),
               Raises("McpError"), Raises("RuntimeError"), Hangs}

\* the payload a backend puts in its result: it tells who was asked for what
BackendPayload(call) == <<call.svr, call.method, call.name, call.arguments>>

Outcome(kind, type, value) == [kind |-> kind, type |-> type, value |-> value]

IdleRequest == [method |-> "none", name |-> "", args |-> "None",
                reply |-> Returns("none"), calls |-> <<>>,
                outcome |-> Outcome("none", "none", <<>>)]

\* variant: the arguments are passed on as received
CallToolArguments_AsReceived(args) == args

\* arguments=args or {}
CallToolArguments(args) == IF args \in {"None", "{}"} THEN "{}" ELSE args

\* typed_args = {k: str(v) ...} if arguments is not None
TypedArgs(arguments) ==
    IF arguments = "None" THEN "None"
    ELSE IF arguments = "{m:1}" THEN "{m:'1'}" ELSE arguments

\* typed_args or arguments
GetPromptArguments(arguments) ==
    IF TypedArgs(arguments) \in {"None", "{}"} THEN arguments ELSE TypedArgs(arguments)

\* the arguments handed to _fwd_req_helper by each handler
HelperArgs(mcp_method, arguments) ==
    CASE mcp_method = "call_tool" -> arguments
      [] mcp_method = "read_resource" -> "None"
      [] mcp_method = "get_prompt" -> GetPromptArguments(arguments)

\* the arguments _fwd_req_helper hands to the session method
SessionArguments(mcp_method, args) ==
    CASE mcp_method = "call_tool" -> CallToolArguments(args)
      [] mcp_method = "read_resource" -> "None"
      [] mcp_method = "get_prompt" -> args

\* variant: a missing session is not detected before the call
ResolutionFailure_NoSessionCheck(route_info, session) ==
    IF route_info = None THEN "ValueError" ELSE "none"

\* the two checks of _fwd_req_helper before the call: the exception raised
ResolutionFailure(route_info, session) ==
    IF route_info = None THEN "ValueError"
    ELSE IF session = None THEN "RuntimeError"
    ELSE "none"

\* variant: every exception of the call is wrapped
MapException_WrapsAll(type, svr_name) ==
    Outcome("raise", "BackendServerError", <<"wrapped", svr_name, type>>)

\* variant: the wrapping error does not say which backend failed
MapException_NamesNoBackend(type, svr_name) ==
    IF type = "TimeoutError" THEN Outcome("raise", "TimeoutError", <<>>)
    ELSE IF type \in {"ConnectionError", "ConnectionResetError", "BrokenPipeError"}
    THEN Outcome("raise", type, <<>>)
    ELSE IF type = "BackendServerError"
    THEN Outcome("raise", "BackendServerError", <<"from_backend">>)
    ELSE Outcome("raise", "BackendServerError", <<"wrapped", "", type>>)

\* the except clauses around the awaited call: the exception the helper raises
MapException(type, svr_name) ==
    IF type = "TimeoutError" THEN Outcome("raise", "TimeoutError", <<>>)
    ELSE IF type \in {"ConnectionError", "ConnectionResetError", "BrokenPipeError"}
    THEN Outcome("raise", type, <<>>)
    ELSE IF type = "BackendServerError"
    THEN Outcome("raise", "BackendServerError", <<"from_backend">>)
    ELSE Outcome("raise", "BackendServerError", <<"wrapped", svr_name, type>>)

\* variant: get_session answers None once the transport has dropped
get_session_ChecksTransport(svr_name) ==
    IF svr_name \in Range(sessions) /\ transport_up[svr_name] THEN svr_name ELSE None

\* get_session
get_session(svr_name) == IF svr_name \in Range(sessions) THEN svr_name ELSE None

\* _fwd_req_helper: the calls made on backend sessions and what the helper
\* returns or raises; reply is what the awaited session method does
FwdReqHelper(cap_name_full, mcp_method, args, reply) ==
    IF server_registry = None \/ server_manager = None
    THEN [calls |-> <<>>,
          outcome |-> Outcome("raise", "BackendServerError", <<"not_initialized">>)]
    ELSE
      LET route_info == resolve_capability(cap_name_full)
          svr_name == IF route_info = None THEN None ELSE route_info[1]
          session == IF route_info = None THEN None ELSE get_session(svr_name)
          failure == ResolutionFailure(route_info, session)
      IN IF failure # "none"
         THEN [calls |-> <<>>, outcome |-> Outcome("raise", failure, <<>>)]
         ELSE
           LET call == [svr |-> svr_name, method |-> mcp_method,
                        name |-> route_info[2],
                        arguments |-> SessionArguments(mcp_method, args)]
           IN [calls |-> <<call>>,
               outcome |->
                 IF reply.kind = "raise" THEN MapException(reply.type, svr_name)
                 ELSE IF reply.kind = "hang" THEN Outcome("hang", "none", <<>>)
                 ELSE IF mcp_method = "read_resource"
                 THEN (IF reply.type = "pair"
                       THEN Outcome("return", "ReadResourceResult", BackendPayload(call))
                       ELSE MapException("TypeError", svr_name))
                 ELSE Outcome("return", reply.type, BackendPayload(call))]

\* variant: the handlers hand on whatever the helper returned
HandlerOutcome_Unchecked(mcp_method, helper_outcome) ==
    IF helper_outcome.kind \in {"raise", "hang"} THEN helper_outcome
    ELSE IF mcp_method = "call_tool"
    THEN Outcome("return", "content", helper_outcome.value)
    ELSE helper_outcome

\* handle_call_tool / handle_read_resource / handle_get_prompt around the
\* helper: the result's type is checked; call_tool returns result.content
HandlerOutcome(mcp_method, helper_outcome) ==
    IF helper_outcome.kind \in {"raise", "hang"} THEN helper_outcome
    ELSE IF helper_outcome.type = ExpectedType(mcp_method)
    THEN (IF mcp_method = "call_tool"
          THEN Outcome("return", "content", helper_outcome.value)
          ELSE helper_outcome)
    ELSE Outcome("raise", "BackendServerError", <<"wrong_type">>)

\* whether the session the request is routed to has a connected transport
TargetUp(cap_name_full) ==
    LET route_info == resolve_capability(cap_name_full)
    IN IF route_info = None THEN TRUE ELSE transport_up[route_info[1]]

\* variant: a request that ends in an error of the transport removes the
\* backend's session from the session map
HandleForward_DropsFailedSession(mcp_method) ==
    /\ request = IdleRequest
    /\ \E name \in RequestNames,
          args \in (IF mcp_method = "read_resource" THEN {"None"} ELSE RequestArgs) :
         \E reply \in Replies(mcp_method, TargetUp(name)) :
            LET h == FwdReqHelper(name, mcp_method, HelperArgs(mcp_method, args), reply)
            IN /\ request' = [method |-> mcp_method, name |-> name, args |-> args,
                              reply |-> IF h.calls = <<>> THEN Returns("none") ELSE reply,
                              calls |-> h.calls,
                              outcome |-> HandlerOutcome(mcp_method, h.outcome)]
               /\ sessions' = IF h.calls # <<>> /\ h.outcome.kind = "raise"
                               THEN SelectSeq(sessions, LAMBDA b : b # h.calls[1].svr)
                               ELSE sessions
    /\ UNCHANGED <<transport_up, reg_vars>>

\* handle_call_tool, handle_read_resource, handle_get_prompt: the helper reads
\* the registry and the session map and writes neither
HandleForward(mcp_method) ==
    /\ request = IdleRequest
    /\ \E name \in RequestNames,
          args \in (IF mcp_method = "read_resource" THEN {"None"} ELSE RequestArgs) :
         \E reply \in Replies(mcp_method, TargetUp(name)) :
            LET h == FwdReqHelper(name, mcp_method, HelperArgs(mcp_method, args), reply)
            IN request' = [method |-> mcp_method, name |-> name, args |-> args,
                           reply |-> IF h.calls = <<>> THEN Returns("none") ELSE reply,
                           calls |-> h.calls,
                           outcome |-> HandlerOutcome(mcp_method, h.outcome)]
    /\ UNCHANGED <<transport_up, sessions, reg_vars>>

\* variant: an empty aggregated list is answered like a missing registry
HandleList_EmptyIsError(ctype) ==
    /\ request = IdleRequest
    /\ request' = [IdleRequest EXCEPT
                     !.method = "list_" \o ctype,
                     !.outcome =
                        IF server_registry = None \/ aggregated[ctype] = <<>>
                        THEN Outcome("raise", "BackendServerError", <<"not_initialized">>)
                        ELSE Outcome("return", "list", aggregated[ctype])]
    /\ UNCHANGED transport_up

\* variant: the handler reads the registry whether or not it is published
HandleList_ReadsUnpublished(ctype) ==
    /\ request = IdleRequest
    /\ request' = [IdleRequest EXCEPT
                     !.method = "list_" \o ctype,
                     !.outcome = Outcome("return", "list", aggregated[ctype])]
    /\ UNCHANGED transport_up

\* handle_list_tools, handle_list_resources, handle_list_prompts
HandleList(ctype) ==
    /\ request = IdleRequest
    /\ request' = [IdleRequest EXCEPT
                     !.method = "list_" \o ctype,
                     !.outcome =
                        IF server_registry = None
                        THEN Outcome("raise", "BackendServerError", <<"not_initialized">>)
                        ELSE Outcome("return", "list", aggregated[ctype])]
    /\ UNCHANGED transport_up

\* the response has gone back to the client, or the client has given up
Ack ==
    /\ request # IdleRequest
    /\ request' = IdleRequest
    /\ UNCHANGED transport_up

\* the transport of a started backend drops while the gateway serves
LoseSession(svr_name) ==
    /\ request = IdleRequest
    /\ svr_name \in Range(sessions)
    /\ transport_up[svr_name]
    /\ transport_up' = [transport_up EXCEPT ![svr_name] = FALSE]
    /\ UNCHANGED <<request, sessions, reg_vars>>

\* app_lifespan not entered, nothing published
InitLife ==
    /\ run = 1
    /\ life_pc = "new"
    /\ life_err = "none"
    /\ startup_ok = FALSE
    /\ server_manager = None
    /\ server_registry = None

\* no request handled, every transport connected
InitFwd ==
    /\ transport_up = [b \in Backends |-> TRUE]
    /\ request = IdleRequest

(* ------------------------------------------------------------------ *)
(* config_loader.load_and_validate_config                              *)
(* ------------------------------------------------------------------ *)

\* keys of the top-level object
ServerNames == {"a", " a_b ", " "}

\* str.strip
Strip(str) ==
    CASE str = " a_b " -> "a_b"
      [] str = " " -> ""
      [] str = "blank" -> ""
      [] OTHER -> str

\* the items of the top-level object: a name and a value that is an object
\* with these fields, or something else; "absent" is a missing key
ServerItems ==
    [name : ServerNames, is_dict : {TRUE},
     type : {"absent", "stdio", "sse", "other_str", "non_str"},
     command : {"absent", "str", "blank", "non_str"},
     args : {"absent", "str_list", "mixed_list", "non_list"},
     env : {"absent", "null", "str_dict", "bad_value_dict", "non_dict"},
     url : {"absent", "http", "ftp", "blank", "non_str"}]
    \cup [name : ServerNames, is_dict : {FALSE}, type : {"absent"},
          command : {"absent"}, args : {"absent"}, env : {"absent"},
          url : {"absent"}]

Raised == [ok |-> FALSE, value |-> None]

Validated(v) == [ok |-> TRUE, value |-> v]

\* _validate_string_list
validate_string_list(field) ==
    IF field \notin {"str_list", "mixed_list"} THEN Raised
    ELSE IF field = "mixed_list" THEN Raised
    ELSE Validated("str_list")

\* _validate_string_dict
validate_string_dict(field) ==
    IF field \notin {"str_dict", "bad_value_dict"} THEN Raised
    ELSE IF field = "bad_value_dict" THEN Raised
    ELSE Validated("str_dict")

\* isinstance(x, str) for the value server_conf.get(key) returns
IsStr(field) == field \notin {"absent", "non_str"}

\* the args and env of an entry with a command: args defaults to [] and env
\* to None; env may be null
ValidateArgs(server_conf) ==
    IF server_conf.args # "absent" THEN validate_string_list(server_conf.args)
    ELSE Validated("[]")

ValidateEnv(server_conf) ==
    IF server_conf.env \notin {"absent", "null"}
    THEN validate_string_dict(server_conf.env)
    ELSE Validated("None")

\* the stdio branch of the loop body; "unset" is a key the stored entry does
\* not have
ValidateStdio(server_conf) ==
    IF ~IsStr(server_conf.command) \/ Strip(server_conf.command) = "" THEN Raised
    ELSE LET args == ValidateArgs(server_conf)
             env == ValidateEnv(server_conf)
         IN IF ~args.ok \/ ~env.ok THEN Raised
            ELSE Validated([type |-> "stdio", url |-> "unset",
                            command |-> Strip(server_conf.command),
                            args |-> args.value, env |-> env.value])

\* the sse branch of the loop body: args and env are looked at only when the
\* entry has a command key
ValidateSse(server_conf) ==
    IF ~IsStr(server_conf.url) \/ Strip(server_conf.url) = "" THEN Raised
    ELSE IF Strip(server_conf.url) # "http" THEN Raised
    ELSE IF server_conf.command = "absent"
    THEN Validated([type |-> "sse", url |-> "http", command |-> "unset",
                    args |-> "unset", env |-> "unset"])
    ELSE IF ~IsStr(server_conf.command) \/ Strip(server_conf.command) = "" THEN Raised
    ELSE LET args == ValidateArgs(server_conf)
             env == ValidateEnv(server_conf)
         IN IF ~args.ok \/ ~env.ok THEN Raised
            ELSE Validated([type |-> "sse", url |-> "http",
                            command |-> Strip(server_conf.command),
                            args |-> args.value, env |-> env.value])

\* one pass of the loop over data.items()
ValidateItem(item) ==
    IF Strip(item.name) = "" THEN Raised
    ELSE IF ~item.is_dict THEN Raised
    ELSE IF item.type \notin {"stdio", "sse"} THEN Raised
    ELSE IF item.type = "stdio" THEN ValidateStdio(item)
    ELSE ValidateSse(item)

\* validated_config[server_name] = ...
Store(config, key, value) ==
    [k \in DOMAIN config \cup {key} |-> IF k = key THEN value ELSE config[k]]

\* the function has not been called
InitLoader ==
    /\ cfg_file = None
    /\ data = <<>>
    /\ validated_config = EmptyMap
    /\ loader_pc = "new"

\* the file is opened and parsed and the top level is checked: there may be
\* no file, a file that cannot be read, a file that is not JSON, JSON whose
\* top level is no object, or a JSON object
LoadFile ==
    /\ loader_pc = "new"
    /\ \E shape \in {"missing", "unreadable", "malformed", "non_dict", "dict"} :
          /\ cfg_file' = shape
          /\ loader_pc' = IF shape = "dict" THEN "validating" ELSE "raised"
    /\ UNCHANGED <<data, validated_config>>

\* the loop body for the next item of the object
LoadItem ==
    /\ loader_pc = "validating"
    /\ Len(data) < MaxServers
    /\ \E item \in ServerItems :
          /\ \A i \in 1..Len(data) : data[i].name # item.name
          /\ data' = Append(data, item)
          /\ LET v == ValidateItem(item)
             IN IF v.ok
                THEN /\ validated_config' = Store(validated_config, Strip(item.name), v.value)
                     /\ UNCHANGED loader_pc
                ELSE /\ loader_pc' = "raised"
                     /\ UNCHANGED validated_config
    /\ UNCHANGED cfg_file

\* the loop is over: return validated_config
LoadReturn ==
    /\ loader_pc = "validating"
    /\ loader_pc' = "returned"
    /\ UNCHANGED <<cfg_file, data, validated_config>>

\* what the caller of load_and_validate_config gets
LoaderResult == IF loader_pc = "returned" THEN validated_config ELSE None

(* ------------------------------------------------------------------ *)
(* The registry on its own: discovery passes over any session mapping  *)
(* ------------------------------------------------------------------ *)

\* session mappings: the non-empty dicts over Backends, in every key order
SessionDicts == {<<"a">>, <<"a_b">>, <<"a", "a_b">>, <<"a_b", "a">>}

\* ClientManager.__init__
InitManager ==
    /\ config_data = EmptyMap
    /\ conn = [b \in Backends |-> IdleConn]
    /\ pending_tasks = {}
    /\ sessions = <<>>
    /\ exit_stack = <<>>
    /\ resources = [b \in Backends |-> NoResources]
    /\ release_log = <<>>
    /\ signals = [b \in Backends |-> <<>>]
    /\ mgr_pc = "new"
    /\ stops = 0

\* CapabilityRegistry.__init__, no pass started
InitIdleRegistry ==
    /\ aggregated = NoLists
    /\ routing_map = EmptyMap
    /\ original_name_map = EmptyMap
    /\ disc_pc = "idle"
    /\ disc_sessions = <<>>
    /\ tasks = [k \in TaskIds |-> IdleTask]
    /\ passes = 0

InitReg ==
    /\ InitIdleRegistry
    /\ backend_lists = [k \in TaskIds |-> ListAnswers \cup {EmptyAnswer}]
    /\ backend_env = [b \in Backends |-> Env("ok", "clean", "exits")]
    /\ InitManager
    /\ InitLife
    /\ InitFwd
    /\ InitLoader

RegDiscover ==
    /\ disc_pc \in {"idle", "returned", "raised"}
    /\ \E sess \in SessionDicts : DiscoverBegin(sess)
    /\ UNCHANGED <<env_vars, mgr_vars, life_vars, fwd_vars>>

RegListReturn ==
    /\ \E k \in TaskIds : ListReturn(k)
    /\ UNCHANGED <<env_vars, mgr_vars, life_vars, fwd_vars>>

RegGatherReturn ==
    /\ GatherReturn
    /\ UNCHANGED <<env_vars, mgr_vars, life_vars, fwd_vars>>

NextReg == RegDiscover \/ RegListReturn \/ RegGatherReturn

SpecReg == InitReg /\ [][NextReg]_vars

(* ------------------------------------------------------------------ *)
(* The manager on its own: start_all and stop_all                      *)
(* ------------------------------------------------------------------ *)

DefaultEnv == Env("ok", "clean", "exits")

\* the behaviours of one backend
EnvProfiles ==
    { DefaultEnv,
      Env("ok", "transport_raises", "exits"),
      Env("ok", "session_raises", "exits"),
      Env("ok", "clean", "ignores"),
      Env("ok", "clean", "reaped"),
      Env("spawn_fails", "clean", "exits"),
      Env("open_fails", "clean", "exits"),
      Env("session_fails", "clean", "exits"),
      Env("init_timeout", "clean", "exits"),
      Env("init_error", "clean", "exits"),
      Env("open_hangs", "clean", "exits"),
      Env("session_hangs", "clean", "exits") }

\* config_data: backend "a" over stdio (or of an unsupported type), backend
\* "a_b" over SSE with or without a local launch command
Configs ==
    UNION { { cfg \in [S -> ConfigKinds] :
                /\ ("a" \in S => cfg["a"] \in {"stdio", "other"})
                /\ ("a_b" \in S => cfg["a_b"] \in {"sse", "sse_local"}) }
            : S \in SUBSET Backends }

\* the behaviours that make a difference for a backend of this kind
EnvApplies(cfg, b, env) ==
    IF b \notin DOMAIN cfg \/ cfg[b] = "other" THEN env = DefaultEnv
    ELSE IF cfg[b] = "sse_local" THEN TRUE
    ELSE env.connect # "spawn_fails" /\ env.term = "exits"

InitMgr ==
    /\ InitIdleRegistry
    /\ InitManager
    /\ InitLife
    /\ InitFwd
    /\ InitLoader
    /\ backend_lists = [k \in TaskIds |-> {EmptyAnswer}]
    /\ backend_env \in [Backends -> EnvProfiles]

MgrStartAll ==
    /\ mgr_pc = "new"
    /\ \E cfg \in Configs :
          /\ \A b \in Backends : EnvApplies(cfg, b, backend_env[b])
          /\ StartAllBegin(cfg)
    /\ UNCHANGED <<env_vars, reg_vars, disc_vars, life_vars, fwd_vars>>

MgrConnectorStep ==
    /\ \E b \in Backends : ConnectorStep(b)
    /\ UNCHANGED <<env_vars, reg_vars, disc_vars, life_vars, fwd_vars>>

MgrProcExit ==
    /\ \E b \in Backends : ProcExit(b)
    /\ UNCHANGED <<env_vars, reg_vars, disc_vars, life_vars, fwd_vars>>

MgrStartAllReturn ==
    /\ StartAllReturn
    /\ UNCHANGED <<env_vars, reg_vars, disc_vars, life_vars, fwd_vars>>

MgrStartAllCancelled ==
    /\ StartAllCancelled
    /\ UNCHANGED <<env_vars, reg_vars, disc_vars, life_vars, fwd_vars>>

MgrStopAll ==
    /\ mgr_pc \in {"new", "started", "start_cancelled", "stopped"}
    /\ stops < MaxStops
    /\ StopAllBegin
    /\ UNCHANGED <<env_vars, reg_vars, disc_vars, life_vars, fwd_vars>>

MgrStopAllGathered ==
    /\ StopAllGathered
    /\ UNCHANGED <<env_vars, reg_vars, disc_vars, life_vars, fwd_vars>>

MgrDrainStep ==
    /\ DrainStep
    /\ UNCHANGED <<env_vars, reg_vars, disc_vars, life_vars, fwd_vars>>

MgrStopAllReturn ==
    /\ StopAllReturn
    /\ UNCHANGED <<env_vars, reg_vars, disc_vars, life_vars, fwd_vars>>

NextMgr ==
    \/ MgrStartAll \/ MgrConnectorStep \/ MgrProcExit \/ MgrStartAllReturn
    \/ MgrStartAllCancelled \/ MgrStopAll \/ MgrStopAllGathered
    \/ MgrDrainStep \/ MgrStopAllReturn

SpecMgr == InitMgr /\ [][NextMgr]_vars

(* ------------------------------------------------------------------ *)
(* start_all run to its end: the event loop runs every connector that  *)
(* can go on, and start_all when its gather is complete                *)
(* ------------------------------------------------------------------ *)

MgrConnectorStepOf(b) ==
    /\ ConnectorStep(b)
    /\ UNCHANGED <<env_vars, reg_vars, disc_vars, life_vars, fwd_vars>>

NextStart ==
    \/ MgrStartAll \/ MgrConnectorStep \/ MgrProcExit \/ MgrStartAllReturn

FairStart ==
    /\ \A b \in Backends : WF_vars(MgrConnectorStepOf(b))
    /\ WF_vars(MgrStartAllReturn)

SpecStart == InitMgr /\ [][NextStart]_vars /\ FairStart

(* ------------------------------------------------------------------ *)
(* bridge_app.app_lifespan                                             *)
(* ------------------------------------------------------------------ *)

\* the ClientManager the current run constructed
cli_mgr == "cli_mgr_" \o ToString(run)

\* _init_bridge_components
Publish ==
    /\ server_manager' = cli_mgr
    /\ server_registry' = "cap_reg_" \o ToString(run)

\* configurations load_and_validate_config can return
LifeConfigs == {cfg \in Configs : \A b \in DOMAIN cfg : cfg[b] # "other"}

\* variant: the configuration is found invalid after the components were
\* published
LifeConfigError_AfterPublish ==
    /\ life_pc = "new"
    /\ request = IdleRequest
    /\ life_pc' = "exiting"
    /\ life_err' = "ConfigurationError"
    /\ Publish
    /\ UNCHANGED startup_ok
    /\ UNCHANGED <<env_vars, reg_vars, disc_vars, mgr_vars, fwd_vars>>

\* load_and_validate_config raises ConfigurationError: the except clause
\* re-raises and the finally block is reached
LifeConfigError ==
    /\ life_pc = "new"
    /\ request = IdleRequest
    /\ life_pc' = "exiting"
    /\ life_err' = "ConfigurationError"
    /\ UNCHANGED <<startup_ok, server_manager, server_registry>>
    /\ UNCHANGED <<env_vars, reg_vars, disc_vars, mgr_vars, fwd_vars>>

\* the configuration is loaded and start_all is called; with no backend
\* start_all, _connect_backends and _discover_capabilities return without
\* suspending, the components are published and the lifespan yields
LifeLoadConfig ==
    /\ life_pc = "new"
    /\ request = IdleRequest
    /\ \E cfg \in LifeConfigs :
          /\ \A b \in Backends : EnvApplies(cfg, b, backend_env[b])
          /\ StartAllBegin(cfg)
          /\ IF DOMAIN cfg = {}
             THEN /\ Publish
                  /\ startup_ok' = TRUE
                  /\ life_pc' = "serving"
             ELSE /\ life_pc' = "connecting"
                  /\ UNCHANGED <<startup_ok, server_manager, server_registry>>
    /\ UNCHANGED life_err
    /\ UNCHANGED <<env_vars, reg_vars, disc_vars, fwd_vars>>

LifeConnectorStep ==
    /\ request = IdleRequest
    /\ \E b \in Backends : ConnectorStep(b)
    /\ UNCHANGED <<env_vars, reg_vars, disc_vars, life_vars, fwd_vars>>

LifeProcExit ==
    /\ request = IdleRequest
    /\ \E b \in Backends : ProcExit(b)
    /\ UNCHANGED <<env_vars, reg_vars, disc_vars, life_vars, fwd_vars>>

\* variant: startup fails as soon as one backend has not started
ConnectFails_WhenAnyFailed(conn_svrs, total_svrs) == conn_svrs < total_svrs

\* if conn_svrs == 0 and total_svrs > 0: raise BackendServerError
ConnectFails(conn_svrs, total_svrs) == conn_svrs = 0 /\ total_svrs > 0

\* start_all returns with no session: _connect_backends raises BackendServerError
LifeNoBackend ==
    /\ request = IdleRequest
    /\ life_pc = "connecting"
    /\ StartAllReturn
    /\ ConnectFails(Len(sessions), Cardinality(DOMAIN config_data))
    /\ life_pc' = "exiting"
    /\ life_err' = "BackendServerError"
    /\ UNCHANGED <<startup_ok, server_manager, server_registry>>
    /\ UNCHANGED <<env_vars, reg_vars, disc_vars, fwd_vars>>

\* the lifespan task is cancelled while it awaits start_all: no except clause
\* of app_lifespan applies and the finally block is reached
LifeCancelled ==
    /\ request = IdleRequest
    /\ life_pc = "connecting"
    /\ StartAllCancelled
    /\ life_pc' = "exiting"
    /\ life_err' = "CancelledError"
    /\ UNCHANGED <<startup_ok, server_manager, server_registry>>
    /\ UNCHANGED <<env_vars, reg_vars, disc_vars, fwd_vars>>

\* start_all returns with sessions: discover_and_register is called on a copy
\* of the session map
LifeDiscover ==
    /\ request = IdleRequest
    /\ life_pc = "connecting"
    /\ StartAllReturn
    /\ ~ConnectFails(Len(sessions), Cardinality(DOMAIN config_data))
    /\ sessions # <<>>
    /\ DiscoverBegin(sessions)
    /\ life_pc' = "discovering"
    /\ UNCHANGED <<life_err, startup_ok, server_manager, server_registry>>
    /\ UNCHANGED <<env_vars, fwd_vars>>

LifeListReturn ==
    /\ request = IdleRequest
    /\ life_pc = "discovering"
    /\ \E k \in TaskIds : ListReturn(k)
    /\ UNCHANGED <<env_vars, mgr_vars, life_vars, fwd_vars>>

\* discover_and_register returns: the components are published and the
\* lifespan yields
LifePublish ==
    /\ request = IdleRequest
    /\ life_pc = "discovering"
    /\ GatherReturn
    /\ Publish
    /\ startup_ok' = TRUE
    /\ life_pc' = "serving"
    /\ UNCHANGED life_err
    /\ UNCHANGED <<env_vars, mgr_vars, fwd_vars>>

\* the serving layer ends and control returns to the lifespan
LifeShutdown ==
    /\ life_pc = "serving"
    /\ request = IdleRequest
    /\ life_pc' = "exiting"
    /\ UNCHANGED <<life_err, startup_ok, server_manager, server_registry>>
    /\ UNCHANGED <<env_vars, reg_vars, disc_vars, mgr_vars, fwd_vars>>

\* mcp_server.manager if mcp_server.manager else cli_mgr
active_manager == IF server_manager # None THEN server_manager ELSE cli_mgr

\* the finally block: stop_all is called on active_manager. The manager of an
\* earlier run has been stopped by that run: it has no task, a closed exit
\* stack and an empty session map, and stop_all on it does nothing
LifeFinally ==
    /\ life_pc = "exiting"
    /\ IF active_manager = cli_mgr
       THEN /\ StopAllBegin
            /\ life_pc' = "stopping"
       ELSE /\ life_pc' = "closed"
            /\ UNCHANGED mgr_vars
    /\ UNCHANGED <<life_err, startup_ok, server_manager, server_registry>>
    /\ UNCHANGED <<env_vars, reg_vars, disc_vars, fwd_vars>>

LifeStopGathered ==
    /\ StopAllGathered
    /\ UNCHANGED <<env_vars, reg_vars, disc_vars, life_vars, fwd_vars>>

LifeDrainStep ==
    /\ DrainStep
    /\ UNCHANGED <<env_vars, reg_vars, disc_vars, life_vars, fwd_vars>>

\* stop_all returns and the lifespan ends
LifeClosed ==
    /\ life_pc = "stopping"
    /\ StopAllReturn
    /\ life_pc' = "closed"
    /\ UNCHANGED <<life_err, startup_ok, server_manager, server_registry>>
    /\ UNCHANGED <<env_vars, reg_vars, disc_vars, fwd_vars>>

\* the front-facing handlers run before startup, while serving and after the
\* lifespan has ended
CanHandle == life_pc \in {"new", "serving", "closed"}

LifeHandleForward ==
    /\ CanHandle
    /\ \E m \in ForwardMethods : HandleForward(m)
    /\ UNCHANGED <<env_vars, disc_vars, mgr_frame, life_vars>>

LifeHandleList ==
    /\ CanHandle
    /\ \E t \in CapabilityTypes : HandleList(t)
    /\ UNCHANGED <<env_vars, reg_vars, disc_vars, mgr_vars, life_vars>>

LifeAck ==
    /\ Ack
    /\ UNCHANGED <<env_vars, reg_vars, disc_vars, mgr_vars, life_vars>>

LifeLoseSession ==
    /\ life_pc = "serving"
    /\ \E b \in Backends : LoseSession(b)
    /\ UNCHANGED <<env_vars, disc_vars, mgr_frame, life_vars>>

\* the backends of a run of the gateway
LifeEnvProfiles ==
    {DefaultEnv, Env("init_timeout", "clean", "exits"),
     Env("ok", "session_raises", "exits")}

\* only the session of backend a_b may raise when it is closed
LifeEnvs == {e \in [Backends -> LifeEnvProfiles] : e["a"].release = "clean"}

\* backend a lists two tools, backend a_b lists resources
LifeLists ==
    [k \in TaskIds |->
        IF k = <<"a", "tools">> THEN {Answer("list", <<It("b_x"), It("x")>>)}
        ELSE IF k = <<"a_b", "resources">>
        THEN {Answer("object", <<It(""), Wr("b_x"), It("x"), It("x")>>)}
        ELSE {EmptyAnswer}]

Init ==
    /\ InitIdleRegistry
    /\ InitManager
    /\ InitLife
    /\ InitFwd
    /\ InitLoader
    /\ backend_lists = LifeLists
    /\ backend_env \in LifeEnvs

Next ==
    \/ LifeConfigError \/ LifeLoadConfig \/ LifeConnectorStep \/ LifeProcExit
    \/ LifeNoBackend \/ LifeCancelled \/ LifeDiscover \/ LifeListReturn \/ LifePublish
    \/ LifeShutdown \/ LifeFinally \/ LifeStopGathered \/ LifeDrainStep
    \/ LifeClosed \/ LifeHandleForward \/ LifeHandleList \/ LifeAck
    \/ LifeLoseSession

Spec == Init /\ [][Next]_vars

(* ------------------------------------------------------------------ *)
(* Several runs of the lifespan in one process                         *)
(* ------------------------------------------------------------------ *)

\* app_lifespan is entered again after a run has ended: it constructs a new
\* ClientManager and a new CapabilityRegistry and starts over; mcp_server is
\* a module global and keeps what an earlier run published
LifeRestart ==
    /\ life_pc = "closed"
    /\ request = IdleRequest
    /\ run < MaxRuns
    /\ run' = run + 1
    /\ config_data' = EmptyMap
    /\ conn' = [b \in Backends |-> IdleConn]
    /\ pending_tasks' = {}
    /\ sessions' = <<>>
    /\ exit_stack' = <<>>
    /\ resources' = [b \in Backends |-> NoResources]
    /\ release_log' = <<>>
    /\ signals' = [b \in Backends |-> <<>>]
    /\ mgr_pc' = "new"
    /\ stops' = 0
    /\ aggregated' = NoLists
    /\ routing_map' = EmptyMap
    /\ original_name_map' = EmptyMap
    /\ disc_pc' = "idle"
    /\ disc_sessions' = <<>>
    /\ tasks' = [k \in TaskIds |-> IdleTask]
    /\ passes' = 0
    /\ life_pc' = "new"
    /\ life_err' = "none"
    /\ startup_ok' = FALSE
    /\ transport_up' = [b \in Backends |-> TRUE]
    /\ UNCHANGED <<server_manager, server_registry, request>>
    /\ UNCHANGED <<backend_lists, backend_env, loader_vars>>

NextRuns ==
    \/ LifeConfigError \/ LifeLoadConfig \/ LifeConnectorStep \/ LifeProcExit
    \/ LifeNoBackend \/ LifeCancelled \/ LifeDiscover \/ LifeListReturn \/ LifePublish
    \/ LifeShutdown \/ LifeFinally \/ LifeStopGathered \/ LifeDrainStep
    \/ LifeClosed \/ LifeRestart

SpecRuns == Init /\ [][NextRuns]_vars

(* ------------------------------------------------------------------ *)
(* Startup with requests arriving before the lifespan has yielded      *)
(* ------------------------------------------------------------------ *)

BeforeYield == life_pc \in {"new", "connecting", "discovering"}

StartupHandleForward ==
    /\ BeforeYield
    /\ \E m \in ForwardMethods : HandleForward(m)
    /\ UNCHANGED <<env_vars, disc_vars, mgr_frame, life_vars>>

StartupHandleList ==
    /\ BeforeYield
    /\ \E t \in CapabilityTypes : HandleList(t)
    /\ UNCHANGED <<env_vars, reg_vars, disc_vars, mgr_vars, life_vars>>

NextStartup ==
    \/ LifeConfigError \/ LifeLoadConfig \/ LifeConnectorStep \/ LifeProcExit
    \/ LifeNoBackend \/ LifeCancelled \/ LifeDiscover \/ LifeListReturn
    \/ LifePublish \/ StartupHandleForward \/ StartupHandleList \/ LifeAck

SpecStartup == Init /\ [][NextStartup]_vars

(* ------------------------------------------------------------------ *)
(* load_and_validate_config on its own                                 *)
(* ------------------------------------------------------------------ *)

InitCfg ==
    /\ InitIdleRegistry
    /\ InitManager
    /\ InitLife
    /\ InitFwd
    /\ InitLoader
    /\ backend_lists = [k \in TaskIds |-> {EmptyAnswer}]
    /\ backend_env = [b \in Backends |-> DefaultEnv]

loader_frame == <<backend_lists, backend_env, run, reg_vars, disc_vars,
                  mgr_vars, life_vars, fwd_vars>>

CfgLoadFile == LoadFile /\ UNCHANGED loader_frame

CfgLoadItem == LoadItem /\ UNCHANGED loader_frame

CfgLoadReturn == LoadReturn /\ UNCHANGED loader_frame

NextCfg == CfgLoadFile \/ CfgLoadItem \/ CfgLoadReturn

SpecCfg == InitCfg /\ [][NextCfg]_vars

(* ------------------------------------------------------------------ *)
(* Properties of the registry                                          *)
(* ------------------------------------------------------------------ *)

\* the names of the items held in the three aggregated lists
ListedNames == UNION {Range(aggregated[t]) : t \in CapabilityTypes}

\* how many items of the three lists taken together carry the name n
Occurrences(n) ==
    LET Occ(t) == Cardinality({i \in 1..Len(aggregated[t]) : aggregated[t][i] = n})
    IN Occ("tools") + Occ("resources") + Occ("prompts")

\* the name backend b's capability n is expected to be exposed under
ExposedAs(b, n) == b \o ("_" \o n)

NameUniverse ==
    OriginalNames \cup {""} \cup {ExposedAs(b, n) : b \in Backends, n \in OriginalNames}
        \cup ListedNames \cup DOMAIN routing_map

\* a list item the registration loop does not skip
IsValidItem(item) == item.is_type /\ item.name # ""

\* the list call of task k returned (did not raise)
Returned(k) == tasks[k].pc = "done" /\ tasks[k].answer.kind \notin RaisingKinds

\* backend b returned a valid item named n in a list call of the running pass
Offers(b, n) ==
    \E t \in CapabilityTypes :
        /\ Returned(<<b, t>>)
        /\ It(n) \in Range(OriginalCapabilities(tasks[<<b, t>>].answer))

CurrentRegistry(count, log) ==
    [aggregated |-> aggregated, routing_map |-> routing_map,
     original_name_map |-> original_name_map, registered_count |-> count, log |-> log]

\* C1: in every reachable state of the registry (before, during and after a
\* discovery pass) the key set of the routing map equals the set of names of the
\* items held in the three aggregated lists.
C1_RoutingKeysAreListedNames == DOMAIN routing_map = ListedNames

\* a pass is under way: one task registered something, one met a conflict,
\* one still awaits its list call
C1_Witness ==
    /\ disc_pc = "gathering"
    /\ \E k \in TaskIds : tasks[k].pc = "awaiting"
    /\ \E k \in TaskIds : tasks[k].pc = "done" /\ tasks[k].registered_count > 0
    /\ \E k \in TaskIds : tasks[k].pc = "done" /\ "conflict" \in Range(tasks[k].log)

\* C2: after any discovery pass, resolve(n) is defined if and only if n is the
\* name of exactly one item across the three aggregated lists, and no exposed
\* name occurs twice in one list or in two different lists.
C2_ResolveIffListedOnce ==
    disc_pc = "returned" =>
        \A n \in NameUniverse :
            /\ Occurrences(n) <= 1
            /\ (resolve_capability(n) # None) <=> (Occurrences(n) = 1)

\* a finished pass in which one backend offered the same name for two
\* capability types: the first list call registered it, the second did not
C2_Witness ==
    /\ disc_pc = "returned"
    /\ \E b \in Backends : \E t1, t2 \in CapabilityTypes :
          /\ t1 # t2
          /\ tasks[<<b, t1>>].registered_count > 0
          /\ Returned(<<b, t2>>)
          /\ tasks[<<b, t2>>].log # <<>>
          /\ tasks[<<b, t2>>].registered_count = 0
          /\ "conflict" \in Range(tasks[<<b, t2>>].log)

FirstOffering(n) ==
    LET idx == {i \in 1..Len(disc_sessions) : Offers(disc_sessions[i], n)}
    IN disc_sessions[CHOOSE i \in idx : \A j \in idx : i <= j]

OfferedByTwo(n) ==
    \E b1, b2 \in Range(disc_sessions) : b1 # b2 /\ Offers(b1, n) /\ Offers(b2, n)

C5_LaterDuplicatesDropped ==
    \A k \in TaskIds :
        Returned(k) =>
            LET items == OriginalCapabilities(tasks[k].answer)
                cur == CurrentRegistry(tasks[k].registered_count, tasks[k].log)
            IN /\ Len(tasks[k].log) = Len(items)
               /\ \A j \in 1..Len(items) :
                     (IsValidItem(items[j]) /\ \E i \in 1..(j - 1) : items[i] = items[j]) =>
                        /\ tasks[k].log[j] = "conflict"
                        /\ Occurrences(ExposedAs(k[1], items[j].name)) = 1
                        /\ [RegisterItem(cur, k[1], k[2], items[j]) EXCEPT !.log = cur.log]
                               = cur

\* a response x, x of which the first was registered and the second dropped
C5_Witness ==
    \E k \in TaskIds :
        /\ Returned(k)
        /\ tasks[k].answer.items = <<It(""), Wr("b_x"), It("x"), It("x")>>
        /\ tasks[k].log = <<"skipped_name", "skipped_type", "registered", "conflict">>
        /\ tasks[k].registered_count = 1

\* C9: if one list call times out, raises a protocol error or raises any other
\* exception, that backend contributes no capability of that type, the valid
\* items of every list call that returned are registered, and
\* discover_and_register does not raise.
C9_FailedListCallIsIsolated ==
    /\ disc_pc # "raised"
    /\ \A k \in TaskIds :
          (tasks[k].pc = "done" /\ tasks[k].answer.kind \in RaisingKinds) =>
              /\ tasks[k].registered_count = 0
              /\ tasks[k].log = <<>>
              /\ tasks[k].exc = "none"
              /\ \A n \in Range(aggregated[k[2]]) : routing_map[n][1] # k[1]
    /\ \A k \in TaskIds :
          Returned(k) =>
              \A item \in Range(OriginalCapabilities(tasks[k].answer)) :
                  IsValidItem(item) =>
                      /\ ExposedAs(k[1], item.name) \in DOMAIN routing_map
                      /\ ExposedAs(k[1], item.name) \in ListedNames

\* a finished pass: one list call of a backend timed out, another type of the
\* same backend and a type of the other backend registered their items
C9_Witness ==
    /\ disc_pc = "returned"
    /\ \E b1, b2 \in Backends : \E t1, t2, t3 \in CapabilityTypes :
          /\ b1 # b2 /\ t1 # t2
          /\ tasks[<<b1, t1>>].pc = "done" /\ tasks[<<b1, t1>>].error = "TimeoutError"
          /\ tasks[<<b1, t2>>].registered_count > 0
          /\ tasks[<<b2, t3>>].registered_count > 0

\* position of a backend in the iteration order of the session mapping
SessionIndex(b) == CHOOSE i \in 1..Len(disc_sessions) : disc_sessions[i] = b

\* position of the first item named n in a list response
FirstPosition(items, n) ==
    CHOOSE i \in 1..Len(items) :
        /\ items[i].name = n
        /\ \A j \in 1..(i - 1) : items[j].name # n

\* C17: after a discovery pass, each aggregated list holds its items by
\* backend in the iteration order of the session mapping and, within a
\* backend, in the order of that backend's response, whatever the order in
\* which the list calls completed.
C17_AggregationFollowsSessionOrder ==
    disc_pc = "returned" =>
        \A t \in CapabilityTypes :
            \A i, j \in 1..Len(aggregated[t]) :
                i < j =>
                    LET ri == routing_map[aggregated[t][i]]
                        rj == routing_map[aggregated[t][j]]
                    IN /\ SessionIndex(ri[1]) <= SessionIndex(rj[1])
                       /\ ri[1] = rj[1] =>
                             FirstPosition(tasks[<<ri[1], t>>].answer.items, ri[2])
                                 < FirstPosition(tasks[<<rj[1], t>>].answer.items, rj[2])

(* ------------------------------------------------------------------ *)
(* Properties of request forwarding                                    *)
(* ------------------------------------------------------------------ *)

Published == server_registry # None /\ server_manager # None

\* the exceptions behind the error kinds of a response
NotFound == "ValueError"
Unavailable == "RuntimeError"

\* C6: for a call_tool, read_resource or get_prompt request handled with the
\* components published: if the name does not resolve the response is the
\* not-found error; if it resolves to a backend for which the manager holds no
\* session the response is the unavailable error; in both cases no method of
\* any backend session was invoked.
C6_ResolutionFailuresInvokeNothing ==
    (request.method \in ForwardMethods /\ Published) =>
        LET route == resolve_capability(request.name)
        IN /\ route = None =>
                 /\ request.outcome = Outcome("raise", NotFound, <<>>)
                 /\ request.calls = <<>>
           /\ (route # None /\ route[1] \notin Range(sessions)) =>
                 /\ request.outcome = Outcome("raise", Unavailable, <<>>)
                 /\ request.calls = <<>>

\* a get_prompt request for a registered name, handled after stop_all has
\* emptied the session map, was answered with the unavailable error
C6_Witness ==
    /\ life_pc = "closed"
    /\ Published
    /\ request.method = "get_prompt"
    /\ request.name = "a_x"
    /\ resolve_capability("a_x") # None
    /\ request.outcome.type = Unavailable
    /\ request.calls = <<>>

\* C7: a call_tool request whose name resolves to (B, o) while the manager
\* holds a session for B makes exactly one call, call_tool on B's session,
\* with the original name o and with the request's arguments, or the empty
\* mapping when they are absent or empty; when B produces a tool result the
\* response is that result's content.
C7_CallToolForwardsOnce ==
    (request.method = "call_tool" /\ Published) =>
        LET route == resolve_capability(request.name)
        IN (route # None /\ route[1] \in Range(sessions)) =>
              LET call == [svr |-> route[1], method |-> "call_tool",
                           name |-> route[2],
                           arguments |-> IF request.args \in {"None", "{}"}
                                         THEN "{}" ELSE request.args]
              IN /\ request.calls = <<call>>
                 /\ request.reply = Returns("CallToolResult") =>
                       request.outcome = Outcome("return", "content", BackendPayload(call))

\* a call_tool request without arguments for the exposed name a_b_x, routed to
\* backend a under the original name b_x, was forwarded with the empty mapping
\* and answered with the content a produced
C7_Witness ==
    /\ life_pc = "serving"
    /\ request.method = "call_tool"
    /\ request.name = "a_b_x"
    /\ request.args = "None"
    /\ Len(request.calls) = 1
    /\ request.calls[1].svr = "a"
    /\ request.calls[1].name = "b_x"
    /\ request.calls[1].arguments = "{}"
    /\ request.outcome.kind = "return"
    /\ request.outcome.type = "content"

\* the backend a call_tool request is routed to, with its transport dropped and
\* its session still held by the manager
RoutedToLost(name) ==
    LET route == resolve_capability(name)
    IN /\ route # None
       /\ ~transport_up[route[1]]
       /\ route[1] \in Range(sessions)

CallErrors == {"TimeoutError", "ConnectionResetError", "BrokenPipeError",
               "BackendServerError"}

C8_Step ==
    /\ \A b \in Backends : ~transport_up[b] => ~transport_up'[b]
    /\ \A b \in Backends :
          (b \in Range(sessions) /\ ~transport_up[b]) =>
              (sessions' = sessions \/ sessions' = <<>>)
    /\ (request = IdleRequest /\ request'.method = "call_tool" /\ Published
        /\ RoutedToLost(request'.name)) =>
           /\ Len(request'.calls) = 1
           /\ request'.calls[1].svr = resolve_capability(request'.name)[1]
           /\ \/ request'.outcome.kind = "hang"
              \/ /\ request'.outcome.kind = "raise"
                 /\ request'.outcome.type \in CallErrors
    /\ (request = IdleRequest /\ request'.method = "list_tools" /\ Published) =>
           /\ request'.outcome = Outcome("return", "list", aggregated["tools"])
           /\ aggregated' = aggregated

C11_NoSessionAfterStopAll ==
    mgr_pc = "stopped" =>
        /\ sessions = <<>>
        /\ \A b \in Backends : get_session(b) = None
        /\ (request.method \in ForwardMethods /\ Published
            /\ resolve_capability(request.name) # None) =>
               /\ request.outcome = Outcome("raise", Unavailable, <<>>)
               /\ request.calls = <<>>

\* stop_all has returned after the exit of a session raised during the drain,
\* and a call_tool request for the registered tool a_x was then answered with
\* the unavailable error
C11_Witness ==
    /\ mgr_pc = "stopped"
    /\ \E i \in 1..Len(release_log) :
          release_log[i].res = "session" /\ release_log[i].outcome = "raised"
    /\ request.method = "call_tool"
    /\ request.name = "a_x"
    /\ resolve_capability("a_x") # None
    /\ request.outcome.type = Unavailable
    /\ request.calls = <<>>

\* asyncio.TimeoutError and the connection errors the helper names
TransportErrors == {"TimeoutError", "ConnectionResetError", "BrokenPipeError"}

\* C19: when the session method called by the forwarding helper raises a
\* timeout, a connection reset or a broken pipe, the request ends in that same
\* error, not in a backend error.
C19_TransportErrorsPassThrough ==
    (request.method \in ForwardMethods /\ request.reply.kind = "raise"
     /\ request.reply.type \in TransportErrors) =>
        /\ Len(request.calls) = 1
        /\ request.outcome = Outcome("raise", request.reply.type, <<>>)

\* a read_resource request forwarded to the connected backend a ended in the
\* connection reset its session raised
C19_Witness ==
    /\ life_pc = "serving"
    /\ transport_up["a"]
    /\ request.method = "read_resource"
    /\ Len(request.calls) = 1
    /\ request.calls[1].svr = "a"
    /\ request.reply = Raises("ConnectionResetError")
    /\ request.outcome.type = "ConnectionResetError"

\* the exception a client session raises for an error response of the backend
ProtocolErrors == {"McpError"}

\* C20: when the session method called by the forwarding helper raises the
\* protocol error the backend reported, the request ends in that same error,
\* not in a backend error wrapping it.
C20_ProtocolErrorPassesThrough ==
    (request.method \in ForwardMethods /\ request.reply.kind = "raise"
     /\ request.reply.type \in ProtocolErrors) =>
        /\ request.outcome.kind = "raise"
        /\ request.outcome.type = request.reply.type

\* C21: when the session method called by the forwarding helper raises an
\* exception that is neither a timeout, nor a connection error, nor an error
\* reported by the backend, the request ends in a backend error that names
\* the backend the request was routed to and the type of that exception.
C21_OtherExceptionsAreWrapped ==
    (request.method \in ForwardMethods /\ request.reply.kind = "raise"
     /\ request.reply.type \notin
            TransportErrors \cup ProtocolErrors \cup {"ConnectionError", "BackendServerError"}) =>
        /\ Len(request.calls) = 1
        /\ request.outcome =
              Outcome("raise", "BackendServerError",
                      <<"wrapped", request.calls[1].svr, request.reply.type>>)
        /\ request.calls[1].svr = resolve_capability(request.name)[1]

\* a get_prompt request routed to the connected backend a, whose session
\* raised RuntimeError, ended in the backend error naming a and RuntimeError
C21_Witness ==
    /\ life_pc = "serving"
    /\ transport_up["a"]
    /\ request.method = "get_prompt"
    /\ request.name = "a_x"
    /\ request.reply = Raises("RuntimeError")
    /\ request.outcome =
          Outcome("raise", "BackendServerError", <<"wrapped", "a", "RuntimeError">>)

\* the backend's session method returned, and what it returned is not what
\* the forwarding method expects
WrongShape(req) ==
    /\ req.method \in ForwardMethods
    /\ Len(req.calls) = 1
    /\ req.reply.kind = "return"
    /\ req.reply.type #
          (IF req.method = "read_resource" THEN "pair" ELSE ExpectedType(req.method))

\* C22: when the value a backend returned for call_tool, read_resource or
\* get_prompt is not of the expected result type, the request ends in the
\* gateway's own error and no value is returned to the client.
C22_WrongResultTypeFails ==
    WrongShape(request) =>
        /\ request.outcome.kind = "raise"
        /\ request.outcome.type = "BackendServerError"
        /\ request.outcome.value[1] \in {"wrong_type", "wrapped"}
        /\ request.method \in {"call_tool", "get_prompt"} =>
              request.outcome.value = <<"wrong_type">>

\* a call_tool request forwarded to the connected backend a, which answered
\* with something that is no tool result, ended in the handler's type error
C22_Witness ==
    /\ life_pc = "serving"
    /\ request.method = "call_tool"
    /\ Len(request.calls) = 1
    /\ request.calls[1].svr = "a"
    /\ request.reply = Returns("dict")
    /\ request.outcome = Outcome("raise", "BackendServerError", <<"wrong_type">>)

\* a step in which a forwarding handler runs
ForwardedRequestStep == request = IdleRequest /\ request'.method \in ForwardMethods

\* a step in which the transport of a backend drops
BackendFailureStep == \E b \in Backends : transport_up[b] /\ ~transport_up'[b]

C23_Step ==
    (life_pc = "serving" /\ (ForwardedRequestStep \/ BackendFailureStep)) =>
        /\ UNCHANGED <<aggregated, routing_map, original_name_map, sessions>>
        /\ UNCHANGED <<life_pc, startup_ok, server_manager, server_registry>>

\* C23: while the gateway serves, a forwarded request, whatever its outcome,
\* and the loss of a backend's transport leave the aggregated lists, the
\* routing map and the session map as they were, and leave the gateway
\* serving with the same published components.
C23_ServingChangesNothing == [][C23_Step]_vars

\* a request routed to backend a_b, whose transport had dropped, failed; both
\* backends are still in the session map and the tools are still listed
C23_Witness ==
    /\ life_pc = "serving"
    /\ ~transport_up["a_b"]
    /\ request.method \in ForwardMethods
    /\ Len(request.calls) = 1
    /\ request.calls[1].svr = "a_b"
    /\ request.outcome.kind = "raise"
    /\ Range(sessions) = Backends
    /\ "a_x" \in Range(aggregated["tools"])

(* ------------------------------------------------------------------ *)
(* Properties of the lifespan                                          *)
(* ------------------------------------------------------------------ *)

\* start_all has returned to _connect_backends
StartAllHasReturned ==
    /\ life_pc \notin {"new", "connecting"}
    /\ life_err \notin {"ConfigurationError", "CancelledError"}

ConfiguredCount == Cardinality(DOMAIN config_data)

InitializedCount == Cardinality({b \in DOMAIN config_data : conn[b].result = "True"})

\* C15: once start_all has returned, the outcome of startup follows from the
\* two counts. No backend configured: no discovery pass, the components are
\* published and the gateway serves. Backends configured and none initialized:
\* startup fails with BackendServerError, no discovery pass is ever run and
\* nothing is ever published. At least one initialized: one discovery pass is
\* run and, when it has returned, the components are published.
C15_StartupFollowsTheCounts ==
    StartAllHasReturned =>
        CASE ConfiguredCount = 0 ->
                /\ life_err = "none" /\ Published /\ startup_ok
                /\ passes = 0 /\ disc_pc = "idle"
          [] ConfiguredCount > 0 /\ InitializedCount = 0 ->
                /\ life_err = "BackendServerError" /\ ~Published /\ ~startup_ok
                /\ passes = 0 /\ disc_pc = "idle"
          [] InitializedCount > 0 ->
                /\ life_err = "none" /\ passes = 1
                /\ IF life_pc = "discovering"
                   THEN ~Published /\ ~startup_ok /\ disc_pc = "gathering"
                   ELSE Published /\ startup_ok /\ disc_pc = "returned"

\* two backends were configured, the initialize of both timed out, and the
\* lifespan has ended with the backend error
C15_Witness ==
    /\ life_pc = "closed"
    /\ ConfiguredCount = 2
    /\ InitializedCount = 0
    /\ life_err = "BackendServerError"
    /\ ~Published

ListMethods == {"list_tools", "list_resources", "list_prompts"}

\* C16: with no backend configured startup succeeds: the components are
\* published, the three aggregated lists are empty and no name resolves; a
\* list request is answered with the empty list, and a call_tool request with
\* the not-found error without any backend call.
C16_EmptyConfigurationServes ==
    (StartAllHasReturned /\ ConfiguredCount = 0) =>
        /\ life_err = "none" /\ startup_ok /\ Published
        /\ aggregated = NoLists
        /\ \A n \in RequestNames \cup NameUniverse : resolve_capability(n) = None
        /\ request.method \in ListMethods =>
              request.outcome = Outcome("return", "list", <<>>)
        /\ request.method = "call_tool" =>
              /\ request.outcome = Outcome("raise", NotFound, <<>>)
              /\ request.calls = <<>>

\* the gateway serves with no backend configured and has answered a
\* list_prompts request with the empty list
C16_Witness ==
    /\ life_pc = "serving"
    /\ ConfiguredCount = 0
    /\ Published
    /\ request.method = "list_prompts"
    /\ request.outcome = Outcome("return", "list", <<>>)

\* the capability type a list request is about
ListedType(method) ==
    CASE method = "list_tools" -> "tools"
      [] method = "list_resources" -> "resources"
      [] method = "list_prompts" -> "prompts"

\* C18: a list request handled while no registry is published is answered
\* with the internal error; manager and registry are published together and
\* only when start_all and the discovery pass have both completed; a list
\* request that is answered with a list is answered with the aggregated list
\* of a completed pass.
C18_NoPartialRegistryObserved ==
    /\ (server_registry = None) <=> (server_manager = None)
    /\ Published =>
          /\ life_pc \notin {"new", "connecting", "discovering"}
          /\ mgr_pc # "starting"
          /\ disc_pc \in {"idle", "returned"}
          /\ \A k \in TaskIds : tasks[k].pc # "awaiting"
    /\ request.method \in ListMethods =>
          IF server_registry = None
          THEN request.outcome =
                   Outcome("raise", "BackendServerError", <<"not_initialized">>)
          ELSE /\ disc_pc # "gathering"
               /\ request.outcome =
                     Outcome("return", "list", aggregated[ListedType(request.method)])

\* a list_tools request handled during the discovery pass, after one list call
\* had registered items and while another was still awaited, was answered
\* with the internal error
C18_Witness ==
    /\ life_pc = "discovering"
    /\ \E k \in TaskIds : tasks[k].pc = "done" /\ tasks[k].registered_count > 0
    /\ \E k \in TaskIds : tasks[k].pc = "awaiting"
    /\ aggregated["tools"] # <<>>
    /\ request.method = "list_tools"
    /\ request.outcome.kind = "raise"

(* ------------------------------------------------------------------ *)
(* Properties of the client manager                                    *)
(* ------------------------------------------------------------------ *)

\* the resources backend b's connector acquired
Acquired(b) == {k \in {"subproc", "transport", "session"} : resources[b][k] # "none"}

\* the release action of (k, b) has run
ReleaseRan(k, b) == \E i \in 1..Len(release_log) :
                        release_log[i].res = k /\ release_log[i].svr = b

C12_Step ==
    stops >= 1 =>
        /\ release_log' = release_log
        /\ signals' = signals
        /\ resources' = resources
        /\ conn' = conn
        /\ sessions' = <<>>
        /\ pending_tasks' = {}
        /\ exit_stack' = <<>>
        /\ mgr_pc' \in {"draining", "stopped"}

\* C12: once a first stop_all has completed, a further stop_all cancels no
\* task, runs no release action, sends no signal, and leaves the session map,
\* the pending-task map and the exit stack empty; it returns normally.
C12_SecondStopAllIsNoOp == [][C12_Step]_vars

\* a second stop_all has returned after a first one that released resources
C12_Witness ==
    /\ stops = 2
    /\ mgr_pc = "stopped"
    /\ Len(release_log) >= 3
    /\ \E b \in Backends : signals[b] # <<>>

\* the ways a connector fails on its own
ConnectorFailures == {"ConfigurationError", "FileNotFoundError", "ConnectionError",
                      "Exception", "TimeoutError"}

\* C13: while start_all runs and when it has returned, the session map holds
\* exactly the backends whose connector completed initialize; no connector is
\* cancelled; when start_all returns every connector has ended, either started
\* or failed on its own, and a failed sibling has taken no session away.
C13_SessionsAreTheStartedBackends ==
    mgr_pc \in {"starting", "started"} =>
        /\ Range(sessions) = {b \in DOMAIN config_data : conn[b].result = "True"}
        /\ \A b \in DOMAIN config_data :
              /\ ~conn[b].cancel
              /\ conn[b].result # "cancelled"
              /\ mgr_pc = "started" =>
                    /\ conn[b].pc = "done"
                    /\ conn[b].result \in ConnectorFailures \cup {"True"}

\* start_all has returned: the connector of a_b failed to spawn its local
\* command, the connector of a started
C13_Witness ==
    /\ mgr_pc = "started"
    /\ conn["a_b"].result = "FileNotFoundError"
    /\ conn["a"].result = "True"
    /\ sessions = <<"a">>

\* start_all is running; every backend is of a supported type, no connector
\* fails or hangs before initialize, and the initialize of at least one
\* backend never answers
InitializeHangs ==
    /\ mgr_pc = "starting"
    /\ \A b \in DOMAIN config_data :
          /\ config_data[b] # "other"
          /\ backend_env[b].connect \in {"ok", "init_timeout"}
    /\ \E b \in DOMAIN config_data : backend_env[b].connect = "init_timeout"

\* start_all has returned with exactly the backends whose initialize answers
StartedWithoutHanging ==
    /\ mgr_pc = "started"
    /\ Range(sessions) = {b \in DOMAIN config_data : backend_env[b].connect = "ok"}
    /\ \A b \in DOMAIN config_data :
          backend_env[b].connect = "init_timeout" => conn[b].result = "TimeoutError"

\* C14: when the initialize of a backend never answers and the other backends
\* initialize, start_all eventually returns: the initialize is given up at its
\* timeout, that backend is not in the session map and every other backend is.
C14_StartAllReturnsDespiteHangingInitialize == InitializeHangs ~> StartedWithoutHanging

\* start_all has returned with backend a started and backend a_b given up at
\* the initialize timeout
C14_Witness ==
    /\ StartedWithoutHanging
    /\ backend_env["a_b"].connect = "init_timeout"
    /\ backend_env["a"].connect = "ok"
    /\ conn["a_b"].result = "TimeoutError"
    /\ sessions = <<"a">>

(* ------------------------------------------------------------------ *)
(* Properties of the lifespan: failures and shutdown                    *)
(* ------------------------------------------------------------------ *)

\* C24: when loading the configuration raises ConfigurationError, start_all
\* is never called: no connector task exists, no subprocess, transport or
\* session was ever acquired, and nothing is published, up to the end of the
\* lifespan.
C24_ConfigErrorStartsNothing ==
    life_err = "ConfigurationError" =>
        /\ config_data = EmptyMap
        /\ pending_tasks = {}
        /\ \A b \in Backends : conn[b] = IdleConn /\ resources[b] = NoResources
        /\ exit_stack = <<>>
        /\ release_log = <<>>
        /\ sessions = <<>>
        /\ server_manager = None
        /\ server_registry = None
        /\ ~startup_ok
        /\ \A t \in CapabilityTypes : aggregated[t] = <<>>

\* the lifespan ended after the configuration was refused
C24_Witness ==
    /\ life_err = "ConfigurationError"
    /\ life_pc = "closed"
    /\ mgr_pc = "stopped"

(* ------------------------------------------------------------------ *)
(* Properties of the configuration loader                              *)
(* ------------------------------------------------------------------ *)

\* an item of the configuration file as section 6.1 of the specification
\* wants it: a non-empty name, an object, a type of stdio or sse, the
\* required fields present, every recognised field of its type
WellFormed(item) ==
    /\ Strip(item.name) # ""
    /\ item.is_dict
    /\ item.type \in {"stdio", "sse"}
    /\ item.type = "stdio" => item.command = "str"
    /\ item.type = "sse" => item.url = "http" /\ item.command \in {"absent", "str"}
    /\ item.args \in {"absent", "str_list"}
    /\ item.env \in {"absent", "null", "str_dict"}

\* C25: load_and_validate_config returns only for a file that holds a JSON
\* object all of whose items are well formed, for stdio and for SSE entries
\* alike, whether or not an SSE entry has a command; when it raises, the
\* caller gets no configuration.
C25_MalformedConfigRaises ==
    /\ loader_pc = "returned" =>
          /\ cfg_file = "dict"
          /\ \A i \in 1..Len(data) : WellFormed(data[i])
    /\ loader_pc = "raised" => LoaderResult = None

\* C26: whenever a run of the lifespan has ended, whichever way it ended and
\* whatever an earlier run in the process had published, stop_all has run to
\* its end on the manager this run constructed: every task is gone, every
\* resource it acquired is released and its session map is empty.
C26_StopAllOnOwnManager ==
    life_pc = "closed" =>
        /\ mgr_pc = "stopped"
        /\ pending_tasks = {}
        /\ exit_stack = <<>>
        /\ sessions = <<>>

\* position of a resource in the order a connector acquires them
AcquireRank(res) == CASE res = "subproc" -> 1 [] res = "transport" -> 2 [] res = "session" -> 3

C27_Step ==
    /\ release_log' # release_log =>
          /\ exit_stack # <<>>
          /\ exit_stack' = SubSeq(exit_stack, 1, Len(exit_stack) - 1)
          /\ Len(release_log') = Len(release_log) + 1
          /\ SubSeq(release_log', 1, Len(release_log)) = release_log
          /\ release_log'[Len(release_log')].res = exit_stack[Len(exit_stack)].res
          /\ release_log'[Len(release_log')].svr = exit_stack[Len(exit_stack)].svr
    /\ (release_log' = release_log /\ exit_stack' # exit_stack) =>
          /\ Len(exit_stack') = Len(exit_stack) + 1
          /\ SubSeq(exit_stack', 1, Len(exit_stack)) = exit_stack
    /\ \A i, j \in 1..Len(release_log') :
          (i < j /\ release_log'[i].svr = release_log'[j].svr) =>
              AcquireRank(release_log'[i].res) > AcquireRank(release_log'[j].res)

\* C27: the exit stack grows only at its top, in the order the connectors
\* push, and stop_all runs the release actions from the top down, whatever
\* the interleaving of the connectors and whether or not they succeeded; so
\* for each backend the session is closed before the transport, and the
\* transport before the subprocess is terminated.
C27_ReleaseInReversePushOrder == [][C27_Step]_vars

\* stop_all has returned after releasing, in an order that alternates between
\* the two backends, what a connector that started and one that timed out
\* had acquired
C27_Witness ==
    /\ mgr_pc = "stopped"
    /\ conn["a"].result = "True"
    /\ conn["a_b"].result = "TimeoutError"
    /\ Len(release_log) = 5
    /\ release_log[1].svr = "a"
    /\ release_log[2].svr = "a_b"
    /\ release_log[3].svr = "a"

C29_FailedReleaseDoesNotStopDrain ==
    (\E i \in 1..Len(release_log) : release_log[i].outcome = "raised") =>
        /\ mgr_pc \in {"draining", "stopped"}
        /\ exit_stack = <<>> =>
              \A b \in Backends : \A k \in Acquired(b) : ReleaseRan(k, b)
        /\ mgr_pc = "stopped" => exit_stack = <<>> /\ sessions = <<>>

\* stop_all has returned although the first release action, the close of a
\* session, raised; the four release actions below it ran
C29_Witness ==
    /\ mgr_pc = "stopped"
    /\ Len(release_log) = 5
    /\ release_log[1].outcome = "raised"
    /\ release_log[1].res = "session"
    /\ \A i \in 2..5 : release_log[i].outcome = "ok"

\* the connector of backend b moves from position p to position q
Moves(b, p, q) == conn[b].pc = p /\ conn'[b].pc = q

\* the step pushes the exit of b's resource k on top of the exit stack
Pushes(b, k) ==
    /\ exit_stack' = Append(exit_stack, Res(k, b))
    /\ resources[b][k] = "none"
    /\ resources'[b][k] # "none"

C30_Step ==
    \A b \in DOMAIN config_data :
        config_data[b] = "sse_local" =>
            /\ conn'[b].pc # conn[b].pc =>
                  \/ Moves(b, "created", "spawning") /\ exit_stack' = exit_stack
                  \/ Moves(b, "spawning", "sleeping") /\ Pushes(b, "subproc")
                  \/ Moves(b, "sleeping", "opening_transport") /\ exit_stack' = exit_stack
                  \/ Moves(b, "opening_transport", "opening_session") /\ Pushes(b, "transport")
                  \/ Moves(b, "opening_session", "initializing") /\ Pushes(b, "session")
                  \/ conn'[b].pc = "done" /\ exit_stack' = exit_stack
            /\ (conn'[b].result = "True" /\ conn[b].result # "True") =>
                  conn[b].pc = "initializing"
            /\ conn'[b].result = "FileNotFoundError" =>
                  /\ resources'[b] = NoResources
                  /\ b \notin Range(sessions')
                  /\ \A i \in 1..Len(exit_stack') : exit_stack'[i].svr # b

\* C30: the connector of an SSE backend with a local launch command spawns
\* the subprocess and pushes it on the exit stack, then sleeps, then opens the
\* transport, then the session, then calls initialize, in this order; when
\* the spawn fails it ends as not started with no transport opened, no
\* session and no entry in the session map.
C30_LocalSseStartsInOrder == [][C30_Step]_vars

\* the connector of the SSE backend with a local command awaits initialize
\* with subprocess, transport and session on the exit stack in this order
C30_Witness ==
    /\ "a_b" \in DOMAIN config_data
    /\ config_data["a_b"] = "sse_local"
    /\ conn["a_b"].pc = "initializing"
    /\ exit_stack = <<Res("subproc", "a_b"), Res("transport", "a_b"), Res("session", "a_b")>>
    /\ sessions = <<>>

\* the step runs the release action of backend b's supervised subprocess
ReleasesSubproc(b) ==
    /\ Len(release_log') = Len(release_log) + 1
    /\ release_log'[Len(release_log')].res = "subproc"
    /\ release_log'[Len(release_log')].svr = b

C31_Step ==
    \A b \in Backends :
        ReleasesSubproc(b) =>
            /\ resources[b].subproc # "running" =>
                  /\ signals'[b] = signals[b]
                  /\ resources'[b].subproc = resources[b].subproc
            /\ resources[b].subproc = "running" =>
                  /\ Len(signals'[b]) > Len(signals[b])
                  /\ signals'[b][Len(signals[b]) + 1] = "terminate"
                  /\ ("kill" \in Range(signals'[b])) <=> (backend_env[b].term = "ignores")
                  /\ "kill" \in Range(signals'[b]) =>
                        signals'[b] = signals[b] \o <<"terminate", "kill">>
            /\ release_log'[Len(release_log')].outcome = "ok"
            /\ resources'[b].subproc \in {"exited", "terminated", "killed"}

OffersAs(b, t, n) ==
    /\ b \in Range(disc_sessions)
    /\ Returned(<<b, t>>)
    /\ It(n) \in Range(OriginalCapabilities(tasks[<<b, t>>].answer))

\* C32: from the start of a second discovery pass on, the aggregated lists
\* and the routing map hold only capabilities that a session passed to this
\* pass returned in this pass; nothing of the earlier pass is left.
C32_SecondPassStartsEmpty ==
    passes >= 2 =>
        /\ \A t \in CapabilityTypes : \A n \in Range(aggregated[t]) :
              \E b \in Backends, o \in OriginalNames :
                  n = ExposedAs(b, o) /\ OffersAs(b, t, o)
        /\ \A n \in DOMAIN routing_map :
              \E t \in CapabilityTypes :
                  /\ n = ExposedAs(routing_map[n][1], routing_map[n][2])
                  /\ OffersAs(routing_map[n][1], t, routing_map[n][2])
        /\ \A o \in DOMAIN original_name_map :
              \E t \in CapabilityTypes : OffersAs(original_name_map[o], t, o)

\* a second pass over the session of backend a_b alone has returned with one
\* tool registered
C32_Witness ==
    /\ passes = 2
    /\ disc_pc = "returned"
    /\ disc_sessions = <<"a_b">>
    /\ aggregated["tools"] = <<"a_b_x">>
    /\ DOMAIN routing_map = {"a_b_x"}

\* C33: in a list response, an item that is not of the expected class or has
\* an empty name is skipped and the loop goes on, so the valid items after it
\* are still registered; an answer that is None or of an unrecognised shape
\* registers nothing for its backend and type, and nothing is raised.
C33_BadItemsAreSkipped ==
    /\ disc_pc # "raised"
    /\ \A k \in TaskIds :
          Returned(k) =>
              LET items == tasks[k].answer.items
              IN IF tasks[k].answer.kind \in {"object", "list"}
                 THEN /\ Len(tasks[k].log) = Len(items)
                      /\ \A j \in 1..Len(items) :
                            /\ ~items[j].is_type => tasks[k].log[j] = "skipped_type"
                            /\ (items[j].is_type /\ items[j].name = "") =>
                                  tasks[k].log[j] = "skipped_name"
                            /\ IsValidItem(items[j]) =>
                                  /\ tasks[k].log[j] \in {"registered", "conflict"}
                                  /\ ExposedAs(k[1], items[j].name) \in DOMAIN routing_map
                 ELSE /\ tasks[k].registered_count = 0
                      /\ tasks[k].log = <<>>
                      /\ tasks[k].error = "none"
                      /\ tasks[k].exc = "none"

\* a pass has returned in which the tools of backend a came after a nameless
\* item and an item of another class and were registered, and another list
\* call answered a value of an unrecognised shape
C33_Witness ==
    /\ disc_pc = "returned"
    /\ tasks[<<"a", "tools">>].pc = "done"
    /\ tasks[<<"a", "tools">>].answer = Answer("object", <<It(""), Wr("b_x"), It("x"), It("x")>>)
    /\ aggregated["tools"] = <<"a_x">>
    /\ \E k \in TaskIds :
          /\ tasks[k].pc = "done"
          /\ tasks[k].answer.kind = "unknown"
          /\ tasks[k].registered_count = 0

\* C34: when a discovery pass has returned, every routing entry leads to a
\* backend that is a key of the session mapping given to the pass, under the
\* name of an item which that backend returned in a successful list call of
\* the pass; so while the published components serve, every name that
\* resolves leads to a backend whose session the manager holds.
C34_RoutesLeadToSessions ==
    /\ disc_pc = "returned" =>
          \A n \in DOMAIN routing_map :
              LET target == routing_map[n]
              IN /\ target[1] \in Range(disc_sessions)
                 /\ \E t \in CapabilityTypes :
                       /\ tasks[<<target[1], t>>].pc = "done"
                       /\ tasks[<<target[1], t>>].error = "none"
                       /\ It(target[2]) \in
                             Range(OriginalCapabilities(tasks[<<target[1], t>>].answer))
    /\ (Published /\ life_pc = "serving") =>
          \A n \in NameUniverse :
              resolve_capability(n) # None =>
                  get_session(resolve_capability(n)[1]) # None

\* the gateway serves with two backends configured of which only a_b has a
\* session, and the one published name leads to a_b
C34_Witness ==
    /\ Published
    /\ life_pc = "serving"
    /\ DOMAIN config_data = Backends
    /\ sessions = <<"a_b">>
    /\ DOMAIN routing_map = {"a_b_x"}
    /\ resolve_capability("a_b_x") = <<"a_b", "x">>

\* ---------------------------------------------------------------------------
\* Properties of forwarding: capability types
\* ---------------------------------------------------------------------------

\* the aggregated list that holds the capabilities a forward method serves
ServedList(mcp_method) ==
    CASE mcp_method = "call_tool" -> aggregated["tools"]
      [] mcp_method = "read_resource" -> aggregated["resources"]
      [] mcp_method = "get_prompt" -> aggregated["prompts"]

\* C35: a request is forwarded to a backend only if the requested name is in
\* the aggregated list of the request's capability type: call_tool only for a
\* listed tool, read_resource only for a listed resource, get_prompt only for
\* a listed prompt.
C35_ForwardedOnlyForOwnType ==
    (request.method \in ForwardMethods /\ request.calls # <<>>) =>
        request.name \in Range(ServedList(request.method))

\* ---------------------------------------------------------------------------
\* Properties of the registry: concurrent discovery tasks
\* ---------------------------------------------------------------------------

\* the exposed names a task registered, in the order of its list response
RegisteredIn(task, b) ==
    LET items == OriginalCapabilities(task.answer)
        names[j \in 0..Len(task.log)] ==
            IF j = 0 THEN <<>>
            ELSE IF task.log[j] = "registered"
                 THEN Append(names[j - 1], ExposedAs(b, items[j].name))
                 ELSE names[j - 1]
    IN names[Len(task.log)]

\* the names a finished task registered stand side by side in the aggregated
\* list of its type, in response order
StandsTogether(k) ==
    LET mine == RegisteredIn(tasks[k], k[1])
        list == aggregated[k[2]]
    IN (tasks[k].pc = "done" /\ mine # <<>>) =>
          \E off \in 0..Len(list) :
              /\ off + Len(mine) <= Len(list)
              /\ \A j \in 1..Len(mine) : list[off + j] = mine[j]

\* a step that touches the registry either starts a pass or is the whole
\* registration of one task: its names are new and are appended as one block
RegistersWholeResponse ==
    \/ disc_pc # "gathering" /\ disc_pc' = "gathering"
    \/ UNCHANGED <<aggregated, routing_map, original_name_map>>
    \/ \E k \in TaskIds :
          LET mine == RegisteredIn(tasks'[k], k[1])
          IN /\ tasks[k].pc = "awaiting"
             /\ tasks'[k].pc = "done"
             /\ \A k2 \in TaskIds \ {k} : tasks'[k2] = tasks[k2]
             /\ Range(mine) \cap DOMAIN routing_map = {}
             /\ aggregated' = [aggregated EXCEPT ![k[2]] = @ \o mine]
             /\ DOMAIN routing_map' = DOMAIN routing_map \cup Range(mine)

\* C36: the registration of one list response is not interleaved with that
\* of another discovery task: the items registered from one (backend, type)
\* response stand at consecutive positions of the aggregated list in response
\* order, and every step that registers anything registers the whole
\* response of one task, duplicate checks and insertions together.
C36_RegistrationIsAtomic ==
    /\ [](\A k \in TaskIds : StandsTogether(k))
    /\ [][RegistersWholeResponse]_vars

\* both backends listed two tools in one pass; the list of a_b was registered
\* first and the two tools of a_b are followed by the one tool of a that did
\* not collide
C36_Witness ==
    /\ disc_pc = "gathering"
    /\ tasks[<<"a", "tools">>].pc = "done"
    /\ tasks[<<"a_b", "tools">>].pc = "done"
    /\ tasks[<<"a", "tools">>].log = <<"conflict", "registered">>
    /\ tasks[<<"a_b", "tools">>].registered_count = 2
    /\ aggregated["tools"] = <<"a_b_b_x", "a_b_x", "a_x">>

\* ---------------------------------------------------------------------------
\* Properties of the manager: termination of the connectors
\* ---------------------------------------------------------------------------

\* C37: whatever the backends do, every connector task that start_all created
\* eventually returns and start_all eventually returns.
C37_StartAllAlwaysReturns ==
    (mgr_pc = "starting") ~>
        (mgr_pc = "started" /\ \A b \in DOMAIN config_data : conn[b].pc = "done")

\* ---------------------------------------------------------------------------
\* Properties of the manager: who releases
\* ---------------------------------------------------------------------------

StopAllCalled == mgr_pc \in {"cancelling", "draining", "stopped"}

\* how often the release action of (k, b) has run
ReleaseCount(k, b) ==
    Cardinality({i \in 1..Len(release_log) :
                    release_log[i].res = k /\ release_log[i].svr = b})

OnStack(k, b) == \E i \in 1..Len(exit_stack) : exit_stack[i] = Res(k, b)

\* C38: before stop_all is called no release action has run and no signal has
\* been sent: whatever a connector acquired, also one that failed or timed
\* out afterwards, is still held with its exit on the stack when start_all
\* has returned; a release action runs in stop_all only, at most once for a
\* resource, and exactly once for every acquired resource when stop_all has
\* returned.
C38_ReleasedOnlyByStopAll ==
    /\ ~StopAllCalled =>
          /\ release_log = <<>>
          /\ \A b \in Backends :
                /\ signals[b] = <<>>
                /\ \A k \in Acquired(b) :
                      /\ OnStack(k, b)
                      /\ resources[b][k] \in {"running", "exited", "open"}
    /\ \A b \in Backends : \A k \in {"subproc", "transport", "session"} :
          /\ ReleaseCount(k, b) <= 1
          /\ ReleaseCount(k, b) = 1 => (k \in Acquired(b) /\ ~OnStack(k, b))
          /\ (mgr_pc = "stopped" /\ k \in Acquired(b)) => ReleaseCount(k, b) = 1

\* start_all has returned and stop_all was not called: the initialize of a_b
\* timed out, and its child, transport and session are still held
C38_Witness ==
    /\ mgr_pc = "started"
    /\ stops = 0
    /\ conn["a_b"].result = "TimeoutError"
    /\ resources["a_b"] = [subproc |-> "running", transport |-> "open", session |-> "open"]
    /\ OnStack("subproc", "a_b") /\ OnStack("transport", "a_b") /\ OnStack("session", "a_b")
    /\ release_log = <<>>

====
